---- MODULE Spec2Model ----
(***************************************************************************)
(* Camera gateway of live-video-analytics (lva-edge-iot-central-gateway).  *)
(*                                                                         *)
(* The model covers the gateway registry (CameraGatewayService), the       *)
(* per-camera session (AvaCameraDevice / AvaDevice) and the pipeline       *)
(* controller (AvaPipeline).  Asynchronous handlers are split where they   *)
(* wait for something another handler provides (the initial-sync gate,     *)
(* the reported-property update of a delta, the telemetry send of a timer  *)
(* callback); every other handler is one action.  Remote calls are inputs: *)
(* each call ends "ok" (2xx), "fail" (non-2xx) or "throw" (exception).     *)
(*                                                                         *)
(* Spec is the gateway with its sessions; ReconcileSpec reconciles desired *)
(* deltas on a connected session; TimerSpec runs the inference timer of a  *)
(* started session over time; TeardownSpec handles commands while the      *)
(* timer runs.                                                             *)
(***************************************************************************)
EXTENDS Integers, Sequences, FiniteSets, TLC

(* ------------------------------ bounds -------------------------------- *)
\* the number of external events of a behaviour: gateway requests, device commands,
\* deltas, connection errors, inference messages
MaxEvents == 4

\* seconds the clock advances in the timer specifications
MaxTime == 20

\* telemetry sends of timer ticks that may be pending at once
MaxPending == 3

\* video links a session sends
MaxLinks == 3

\* seconds the clock advances while commands are handled
MaxTeardownTime == 3

(* --------------------------- program constants ------------------------ *)
\* moment.utc(0); the clock counts seconds from it
Epoch == 0

\* moment.utc() when the gateway starts: further from Epoch than any timeout
Boot == Epoch + 100

\* camera ids of the requests; NoCamera is a request without cameraId
Cameras == {1, 2}
\* every AvaDevice object constructed is a session of its own
Sessions == 1..MaxEvents
NoSession == 0
NoCamera == 0
Outcomes == {"ok", "fail", "throw"}

VARIABLES
    avaInferenceDeviceMap,   \* registry: camera id -> session (NoSession: absent)
    sessionCount,            \* number of AvaDevice objects constructed so far
    cameraId,                \* session -> cameraInfo.cameraId
    connectPc,               \* session -> position of connectDeviceClient
    deviceClient,            \* session -> this.deviceClient is set
    deviceTwin,              \* session -> this.deviceTwin is set
    clientOpen,              \* session -> the shadow connection is open
    twinListening,           \* session -> 'properties.desired' listener registered
    deferredStart,           \* session -> state of the initial-sync gate
    healthState,             \* session -> "good" | "critical"
    pendingDeltas,           \* session -> delta callbacks waiting for their update
    deltaDone,               \* session -> delta callbacks completed
    deviceReadyCalls,        \* session -> calls of deviceReady
    connectTelemetryCalls,   \* session -> connected/inactive sendMeasurement of connect
    livePipelineActive,      \* camera id -> the live pipeline of that name is active
    inferenceInterval,       \* session -> this.inferenceInterval refers to a timer
    liveTimers,              \* session -> setInterval timers not cleared
    lastInferenceTime,       \* session
    videoInferenceStartTime, \* session
    createVideoLinkForInferenceTimeout, \* session
    now,                     \* clock (seconds)
    events,                  \* external events handled so far
    lastOp,                  \* the result returned in the last step
    iotcDevices,             \* camera ids with a device identity in IoT Central
    settings,                \* session -> recognized setting -> value
    patchedProperties,       \* the patch the delta callback of the last step built
    ticked,                  \* session -> timers that fired in the current second
    tickPending,             \* session -> timer callbacks waiting for their send
    links,                   \* session -> video-link events sent, oldest first
    gatewayHealthState,      \* CameraGatewayService.healthState
    healthCheckFailStreak,   \* CameraGatewayService.healthCheckFailStreak
    healthCheckRetries,      \* CameraGatewayService.healthCheckRetries
    exited,                  \* process.exit has been called
    restart,                 \* position and record of restartModule
    moduleSettings           \* CameraGatewayService.moduleSettings

vars == << avaInferenceDeviceMap, sessionCount, cameraId, connectPc, deviceClient,
           deviceTwin, clientOpen, twinListening, deferredStart, healthState,
           pendingDeltas, deltaDone, deviceReadyCalls,
           connectTelemetryCalls, livePipelineActive, inferenceInterval, liveTimers,
           lastInferenceTime, videoInferenceStartTime,
           createVideoLinkForInferenceTimeout, now, events, lastOp,
           iotcDevices, settings, patchedProperties, ticked, tickPending, links,
           gatewayHealthState, healthCheckFailStreak, healthCheckRetries, exited,
           restart, moduleSettings >>

sessionVars == << cameraId, connectPc, deviceClient, deviceTwin, clientOpen,
                  twinListening, deferredStart, healthState >>
deltaVars == << pendingDeltas, deltaDone >>
readyVars == << deviceReadyCalls, connectTelemetryCalls >>
timerVars == << inferenceInterval, liveTimers, ticked >>
linkVars == << tickPending, links >>
healthVars == << gatewayHealthState, healthCheckFailStreak, healthCheckRetries,
                exited, restart >>
windowVars == << lastInferenceTime, videoInferenceStartTime,
                 createVideoLinkForInferenceTimeout >>

(* ------------------- values and settings (device.ts 63-167) ----------- *)

\* values of a desired-property document
Undefined == [t |-> "undefined"]
Null == [t |-> "null"]
Num(n) == [t |-> "number", n |-> n]
Bool(b) == [t |-> "boolean", b |-> b]
Str(s) == [t |-> "string", s |-> s]
\* an object; hasValue: it has an own property `value`, which holds v
Obj(hasValue, v) == [t |-> "object", hasValue |-> hasValue, value |-> v]

defaultVideoPlaybackHost == Str("http://localhost:8094")
defaultInferenceTimeout == 5
defaultMaxVideoInferenceTime == 10
defaultHealthCheckRetries == 3

RecognizedKeys == {"wpVideoPlaybackHost", "wpMaxVideoInferenceTime",
                   "wpDebugTelemetry", "wpInferenceTimeout"}
VersionKey == "$version"

\* the right operand of `value || ...` in the case of each setting
Default(key) ==
    CASE key = "wpVideoPlaybackHost"     -> defaultVideoPlaybackHost
      [] key = "wpMaxVideoInferenceTime" -> Num(defaultMaxVideoInferenceTime)
      [] key = "wpDebugTelemetry"        -> Bool(FALSE)
      [] key = "wpInferenceTimeout"      -> Num(defaultInferenceTimeout)

\* the settings objects of a new AvaCameraDevice
InitialSettings == [k \in RecognizedKeys |-> Default(k)]

\* patchedProperties: the delta the callback of the last step was called with,
\* the patch it built (a set of << key, value >>) and whether it handed the patch
\* to the reported-property update; NoPatch when the last step was no delta
\* callback
NoPatch == [session |-> NoSession, delta |-> << >>, patch |-> {}, reported |-> FALSE]

\* the instance parameter assetName of an operation that computes none
NoAssetName == [appScopeId |-> "", deviceId |-> "", cameraId |-> NoCamera,
                utc |-> << >>]

\* the instance document and stream address of an operation that fetches none
NoPreparation == [document |-> FALSE, rtspUrl |-> ""]

\* the routed message of an operation that handles none
NoMessage == [inputName |-> "", subject |-> [length |-> 0, second |-> "",
                                             third |-> << >>], body |-> ""]

\* lastOp: what the operation of the last step returned to its caller; NoOp when
\* the last step returned nothing (a callback, a handler that went on waiting)
NoOp == [kind |-> "none", session |-> NoSession, camera |-> NoCamera,
         status |-> 0, result |-> FALSE, calls |-> << >>,
         telemetry |-> << >>, health |-> "", heartbeats |-> {}, paramsOk |-> TRUE,
         closed |-> FALSE, assetName |-> NoAssetName, message |-> NoMessage,
     prepared |-> NoPreparation,
         dpsProvisionStatus |-> FALSE, dpsProvisionMessage |-> "",
         clientConnectionStatus |-> FALSE, clientConnectionMessage |-> ""]

\* a step that is no delta callback
NoReconcile == patchedProperties' = NoPatch /\ UNCHANGED settings

\* a step in which no timer callback runs
NoTick == UNCHANGED linkVars

\* the gateway as constructed (part_002 179-181)
\* no restartModule has been called
NoRestart == [pc |-> "idle", reason |-> "", timeout |-> 0, waited |-> 0,
              emitted |-> FALSE, responded |-> FALSE]

HealthInit ==
    /\ restart = NoRestart
    /\ gatewayHealthState = "good"
    /\ healthCheckFailStreak = 0
    /\ healthCheckRetries = defaultHealthCheckRetries
    /\ exited = FALSE
    /\ moduleSettings = [wpDebugTelemetry |-> FALSE]

\* a step of a handler other than the health check and the module callbacks:
\* the process is running and the health counters stay
NoHealthCheck == (~exited) /\ UNCHANGED healthVars /\ UNCHANGED moduleSettings

Init ==
    /\ avaInferenceDeviceMap = [c \in Cameras |-> NoSession]
    /\ sessionCount = 0
    /\ cameraId = [s \in Sessions |-> NoCamera]
    /\ connectPc = [s \in Sessions |-> "unborn"]
    /\ deviceClient = [s \in Sessions |-> FALSE]
    /\ deviceTwin = [s \in Sessions |-> FALSE]
    /\ clientOpen = [s \in Sessions |-> FALSE]
    /\ twinListening = [s \in Sessions |-> FALSE]
    /\ deferredStart = [s \in Sessions |-> "pending"]
    /\ healthState = [s \in Sessions |-> "good"]
    /\ pendingDeltas = [s \in Sessions |-> 0]
    /\ deltaDone = [s \in Sessions |-> 0]
    /\ deviceReadyCalls = [s \in Sessions |-> 0]
    /\ connectTelemetryCalls = [s \in Sessions |-> 0]
    /\ livePipelineActive = [c \in Cameras |-> FALSE]
    /\ inferenceInterval = [s \in Sessions |-> FALSE]
    /\ liveTimers = [s \in Sessions |-> 0]
    /\ lastInferenceTime = [s \in Sessions |-> Epoch]
    /\ videoInferenceStartTime = [s \in Sessions |-> 0]
    /\ createVideoLinkForInferenceTimeout = [s \in Sessions |-> FALSE]
    /\ now = Boot
    /\ events = 0
    /\ lastOp = NoOp
    /\ iotcDevices = {}
    /\ settings = [s \in Sessions |-> InitialSettings]
    /\ patchedProperties = NoPatch
    /\ ticked = [s \in Sessions |-> 0]
    /\ tickPending = [s \in Sessions |-> 0]
    /\ links = [s \in Sessions |-> << >>]
    /\ HealthInit

(* ------------------------- AvaPipeline (part_001) --------------------- *)

\* status >= 200 && status < 300 of a remote call that returned
Success(o) == o = "ok"

\* One remote call of a pipeline sequence: `prev` is the state of the enclosing
\* try block, o the outcome of the call.  `assign` says whether the code assigns
\* the call's status to `result` (start) or ignores it (stop, delete).
Call(prev, name, o, assign) ==
    [ result |-> IF assign /\ o # "throw" THEN Success(o) ELSE prev.result,
      threw  |-> o = "throw",
      calls  |-> Append(prev.calls, name) ]

Begin == [result |-> FALSE, threw |-> FALSE, calls |-> << >>]

\* startAvaPipeline: o[1] setTopology, o[2] setInstance, o[3] activateInstance.
\* `result` keeps the value of the last completed assignment when a call throws.
startAvaPipeline(o) ==
    LET t1 == Call(Begin, "setTopology", o[1], TRUE)
        t2 == IF (~t1.threw) /\ t1.result = TRUE
              THEN Call(t1, "setInstance", o[2], TRUE) ELSE t1
        t3 == IF (~t2.threw) /\ t2.result = TRUE
              THEN Call(t2, "activateInstance", o[3], TRUE) ELSE t2
    IN  [result |-> t3.result, calls |-> t3.calls]

\* stopAvaPipeline: deactivateInstance, status ignored, true unless it threw
stopAvaPipeline(o) ==
    LET t1 == Call(Begin, "deactivateInstance", o, FALSE)
    IN  [result |-> ~t1.threw, calls |-> t1.calls]

\* deleteAvaPipeline: d[1] deactivateInstance, d[2] deleteInstance,
\* d[3] deleteTopology; statuses ignored, a throw leaves the try block
deleteAvaPipeline(d) ==
    LET t1 == Call(Begin, "deactivateInstance", d[1], FALSE)
        t2 == IF ~t1.threw THEN Call(t1, "deleteInstance", d[2], FALSE) ELSE t1
        t3 == IF ~t2.threw THEN Call(t2, "deleteTopology", d[3], FALSE) ELSE t2
    IN  [result |-> ~t3.threw, calls |-> t3.calls]

\* The remote module's view of the live pipeline named after the camera: it is
\* active after a successful livePipelineActivate and inactive after a successful
\* livePipelineDeactivate.
Has(calls, name) == \E i \in 1..Len(calls) : calls[i] = name

ActiveAfterStart(active, o) ==
    IF Has(startAvaPipeline(o).calls, "activateInstance") /\ Success(o[3])
    THEN TRUE ELSE active

ActiveAfterDeactivate(active, o) ==
    IF Success(o) THEN FALSE ELSE active

(* ------------------- the initial-sync gate (utils.defer) -------------- *)

\* deferredStart.resolve(): settles the promise the first time, later calls do
\* nothing
Resolve(gate) == IF gate = "pending" THEN "resolved" ELSE gate

\* fault variant of AwaitDeferredStart: connect does not wait for the gate
AwaitNothing(s) == TRUE

\* await this.deferredStart.promise
AwaitDeferredStart(s) == deferredStart[s] = "resolved"

(* ------------------- CameraGatewayService: createDevice --------------- *)

\* What a createAvaInferenceDevice request runs into:
\*   "noCameraId"   cameraInfo.cameraId is missing
\*   "noConfig"     appHost / apiToken / deviceKey / scopeId is missing
\*   "noTopology"   the pipeline topology document is not in blob storage
\*   "dpsError"     the provisioning service rejects the registration
\*   "clientNull"   fromConnectionString returns nothing
\*   "clientThrow"  fromConnectionString throws
\*   "openThrow"    deviceClient.open() throws
\*   "twinThrow"    deviceClient.getTwin() throws
\*   "ok"           the shadow connection opens
Rejections == {"noCameraId", "noConfig", "noTopology", "dpsError"}
ConnectFailures == {"clientNull", "clientThrow", "openThrow", "twinThrow"}
CreateInputs == Rejections \cup ConnectFailures \cup {"ok"}

\* createAvaInferenceDevice up to the result of connectDeviceClientInternal:
\*   "rejected"  no AvaDevice was constructed
\*   "failed"    the AvaDevice was constructed and its connection did not open
\*   "opened"    the connection is open, connect waits for the initial sync
ProvisionPath(in) ==
    IF in \in Rejections THEN "rejected"
    ELSE IF in \in ConnectFailures THEN "failed"
    ELSE "opened"

\* fault variant of ShouldRegister: the connection status is not consulted
ShouldRegisterOnProvision(r) ==
    r.dpsProvisionStatus = TRUE

\* the condition under which createAvaInferenceDevice inserts into the map
ShouldRegister(r) ==
    r.dpsProvisionStatus = TRUE /\ r.clientConnectionStatus = TRUE

Registered(map, r) ==
    IF ShouldRegister(r) THEN [map EXCEPT ![r.camera] = r.session] ELSE map

\* the IProvisionResult of a request that ran into `in`
DpsProvisionStatus(in) == in \notin Rejections

DpsProvisionMessage(in) ==
    CASE in = "noCameraId" -> "Missing device configuration"
      [] in = "noConfig"   -> "Missing camera management settings"
      [] in = "noTopology" -> "No pipeline package was found"
      [] in = "dpsError"   -> "Error while provisioning device"
      [] OTHER             -> "IoT Central successfully provisioned device"

ClientConnectionStatus(in) == in = "ok"

ClientConnectionMessage(in) ==
    CASE in \in Rejections    -> ""
      [] in = "clientNull"    -> "Failed to connect device client interface"
      [] in = "clientThrow"   -> "Failed to instantiate client interface"
      [] in \in {"openThrow", "twinThrow"} -> "IoT Central connection error"
      [] OTHER                -> "Successfully connected to IoT Central"

CreateResult(cam, s, in) ==
    [kind |-> "create", session |-> s, camera |-> cam,
     status |-> 0, result |-> DpsProvisionStatus(in) /\ ClientConnectionStatus(in),
     calls |-> << >>,
     telemetry |-> << >>, health |-> "", heartbeats |-> {}, paramsOk |-> TRUE,
     closed |-> FALSE, assetName |-> NoAssetName, message |-> NoMessage,
     prepared |-> NoPreparation,
     dpsProvisionStatus |-> DpsProvisionStatus(in),
     dpsProvisionMessage |-> DpsProvisionMessage(in),
     clientConnectionStatus |-> ClientConnectionStatus(in),
     clientConnectionMessage |-> ClientConnectionMessage(in)]

createAvaInferenceDevice(cam, in) ==
    LET path == ProvisionPath(in)
        conn == IF in \in ConnectFailures THEN in ELSE "ok"
        s == sessionCount + 1
    IN  /\ (in = "noCameraId") = (cam = NoCamera)
        /\ events < MaxEvents
        /\ events' = events + 1
        /\ IF path = "rejected"
           THEN /\ lastOp' = CreateResult(cam, NoSession, in)
                /\ avaInferenceDeviceMap' = Registered(avaInferenceDeviceMap, lastOp')
                /\ UNCHANGED << sessionCount, sessionVars, videoInferenceStartTime,
                                iotcDevices >>
           ELSE /\ sessionCount' = s
                /\ iotcDevices' = iotcDevices \cup {cam}
                /\ cameraId' = [cameraId EXCEPT ![s] = cam]
                /\ videoInferenceStartTime' = [videoInferenceStartTime EXCEPT ![s] = now]
                /\ deviceClient' = [deviceClient EXCEPT
                                      ![s] = conn \in {"ok", "openThrow", "twinThrow"}]
                /\ clientOpen' = [clientOpen EXCEPT ![s] = conn \in {"ok", "twinThrow"}]
                /\ deviceTwin' = [deviceTwin EXCEPT ![s] = conn = "ok"]
                /\ twinListening' = [twinListening EXCEPT ![s] = conn = "ok"]
                /\ UNCHANGED << deferredStart, healthState >>
                /\ IF path = "failed"
                   THEN /\ connectPc' = [connectPc EXCEPT ![s] = "failed"]
                        /\ lastOp' = CreateResult(cam, s, in)
                        /\ avaInferenceDeviceMap' =
                               Registered(avaInferenceDeviceMap, lastOp')
                   ELSE /\ connectPc' = [connectPc EXCEPT ![s] = "awaitSync"]
                        /\ lastOp' = NoOp
                        /\ UNCHANGED avaInferenceDeviceMap
        /\ UNCHANGED << deltaVars, readyVars, livePipelineActive, timerVars,
                        lastInferenceTime, createVideoLinkForInferenceTimeout,
                        now >>
        /\ NoReconcile
        /\ NoHealthCheck
        /\ NoTick

\* connectDeviceClient after the gate: deviceReady, the connected/inactive
\* telemetry, the return to createAvaInferenceDevice and the map insertion
createAvaInferenceDeviceResume(s) ==
    /\ connectPc[s] = "awaitSync"
    /\ AwaitDeferredStart(s)
    /\ deviceReadyCalls' = [deviceReadyCalls EXCEPT ![s] = @ + 1]
    /\ connectTelemetryCalls' = [connectTelemetryCalls EXCEPT ![s] = @ + 1]
    /\ connectPc' = [connectPc EXCEPT ![s] = "connected"]
    /\ lastOp' = CreateResult(cameraId[s], s, "ok")
    /\ avaInferenceDeviceMap' = Registered(avaInferenceDeviceMap, lastOp')
    /\ UNCHANGED << sessionCount, cameraId, deviceClient, deviceTwin, clientOpen,
                    twinListening, deferredStart, healthState, deltaVars,
                    livePipelineActive, timerVars, windowVars, now, events,
                    iotcDevices >>
    /\ NoReconcile
    /\ NoHealthCheck
    /\ NoTick

(* ------------------- AvaCameraDevice: connect on a session ------------ *)

\* the calls connectDeviceClientInternal makes on the client it creates, up to
\* the one that fails under `in`
OpeningCalls(in) ==
    CASE in \in {"clientNull", "clientThrow"} -> << "fromConnectionString" >>
      [] in = "openThrow" -> << "fromConnectionString", "open" >>
      [] in = "twinThrow" -> << "fromConnectionString", "open", "getTwin" >>
      [] OTHER -> << "fromConnectionString", "open", "getTwin", "on",
                     "onDeviceMethod", "onDeviceMethod", "onDeviceMethod",
                     "onDeviceMethod" >>

\* what connectDeviceClient returns, or has done when it goes on waiting
ConnectResult(kind, s, status, message, calls, closed) ==
    [NoOp EXCEPT !.kind = kind, !.session = s, !.camera = cameraId[s],
                 !.result = status, !.calls = calls, !.closed = closed,
                 !.dpsProvisionStatus = TRUE,
                 !.clientConnectionStatus = status,
                 !.clientConnectionMessage = message]

TwinAccessError == "An error occurred while accessing the device twin properties"

\* connectDeviceClient called on a session that has been through connect before.
\* With this.deviceClient set the block before the try removes the listeners of
\* the twin and closes the client: this.deviceTwin.removeAllListeners() throws a
\* TypeError when this.deviceTwin is null, close() may throw (closeO); either
\* exception leaves connectDeviceClientInternal and is caught by
\* connectDeviceClient.  A session whose handle was cleared by the error callback
\* while its connection is open is not reconnected here.
connectDeviceClient(s, in, closeO) ==
    LET hadClient == deviceClient[s]
        typeError == hadClient /\ ~deviceTwin[s]
        closeThrew == hadClient /\ deviceTwin[s] /\ closeO = "throw"
        teardown == IF hadClient /\ deviceTwin[s]
                    THEN << "removeAllListeners", "removeAllListeners", "close" >>
                    ELSE << >>
        closed == hadClient /\ deviceTwin[s] /\ closeO = "ok"
    IN  /\ connectPc[s] \in {"failed", "connected"}
        /\ deviceClient[s] \/ ~clientOpen[s]
        /\ events < MaxEvents
        /\ events' = events + 1
        /\ IF typeError
           THEN /\ lastOp' = ConnectResult("connect", s, FALSE, TwinAccessError,
                                           << >>, FALSE)
                /\ UNCHANGED << deviceClient, deviceTwin, clientOpen, twinListening,
                                connectPc >>
           ELSE IF closeThrew
           THEN /\ lastOp' = ConnectResult("connect", s, FALSE, TwinAccessError,
                                           teardown, FALSE)
                /\ twinListening' = [twinListening EXCEPT ![s] = FALSE]
                /\ UNCHANGED << deviceClient, deviceTwin, clientOpen, connectPc >>
           ELSE /\ deviceClient' = [deviceClient EXCEPT
                                      ![s] = in \in {"ok", "openThrow", "twinThrow"}]
                /\ clientOpen' = [clientOpen EXCEPT ![s] = in \in {"ok", "twinThrow"}]
                /\ deviceTwin' = [deviceTwin EXCEPT ![s] = in = "ok"]
                /\ twinListening' = [twinListening EXCEPT ![s] = in = "ok"]
                /\ IF in = "ok"
                   THEN /\ connectPc' = [connectPc EXCEPT ![s] = "reconnectSync"]
                        /\ lastOp' = ConnectResult("connecting", s, TRUE,
                                         ClientConnectionMessage(in),
                                         teardown \o OpeningCalls(in), closed)
                   ELSE /\ connectPc' = [connectPc EXCEPT ![s] = "failed"]
                        /\ lastOp' = ConnectResult("connect", s, FALSE,
                                         ClientConnectionMessage(in),
                                         teardown \o OpeningCalls(in), closed)
        /\ UNCHANGED << avaInferenceDeviceMap, sessionCount, cameraId, deferredStart,
                        healthState, deltaVars, readyVars, livePipelineActive,
                        timerVars, windowVars, now, iotcDevices >>
        /\ NoReconcile
        /\ NoHealthCheck
        /\ NoTick

\* connectDeviceClient of an existing session after the gate: deviceReady, the
\* connected/inactive telemetry and the return
connectDeviceClientResume(s) ==
    /\ connectPc[s] = "reconnectSync"
    /\ AwaitDeferredStart(s)
    /\ deviceReadyCalls' = [deviceReadyCalls EXCEPT ![s] = @ + 1]
    /\ connectTelemetryCalls' = [connectTelemetryCalls EXCEPT ![s] = @ + 1]
    /\ connectPc' = [connectPc EXCEPT ![s] = "connected"]
    /\ lastOp' = ConnectResult("connect", s, TRUE, ClientConnectionMessage("ok"),
                               << >>, FALSE)
    /\ UNCHANGED << avaInferenceDeviceMap, sessionCount, cameraId, deviceClient,
                    deviceTwin, clientOpen, twinListening, deferredStart,
                    healthState, deltaVars, livePipelineActive, timerVars,
                    windowVars, now, events, iotcDevices >>
    /\ NoReconcile
    /\ NoHealthCheck
    /\ NoTick

(* ------------------- AvaDevice: desired-property deltas --------------- *)

(* ------------------- AvaCameraDevice: reconciliation ------------------ *)

\* Object.prototype.hasOwnProperty.call(v, 'value') throws a TypeError when v is
\* undefined or null
HasOwnThrows(v) == v.t \in {"undefined", "null"}

HasOwnValue(v) == v.t = "object" /\ v.hasValue

\* the `value` of an entry: the own property `value` if there is one, else the
\* entry itself
Unwrap(v) == IF HasOwnValue(v) THEN v.value ELSE v

Falsy(v) == v \in {Undefined, Null, Num(0), Bool(FALSE), Str("")}

\* value || d
OrDefault(v, d) == IF Falsy(v) THEN d ELSE v

Put(patch, key, v) == {e \in patch : e[1] # key} \cup {<< key, v >>}

PatchKeys(patch) == {e[1] : e \in patch}

\* fault variant of Applied: the unwrapped value is stored as it is
AppliedRaw(key, value) == Unwrap(value)

\* the value a recognized key is set to
Applied(key, value) == OrDefault(Unwrap(value), Default(key))

\* fault variant of ReconcileEntry: every key of the delta goes into the patch
ReconcileEntryEchoes(st, e) ==
    IF st.threw THEN st
    ELSE IF HasOwnThrows(e.value) THEN [st EXCEPT !.threw = TRUE]
    ELSE IF e.key \in RecognizedKeys
         THEN [st EXCEPT !.settings[e.key] = Applied(e.key, e.value),
                         !.patch = Put(@, e.key, Applied(e.key, e.value))]
         ELSE [st EXCEPT !.patch = Put(@, e.key, Unwrap(e.value))]

\* one pass of the for..in loop; st.threw: an earlier pass threw and the loop
\* was left for the catch block
ReconcileEntry(st, e) ==
    IF st.threw THEN st
    ELSE IF e.key = VersionKey THEN st
    ELSE IF HasOwnThrows(e.value) THEN [st EXCEPT !.threw = TRUE]
    ELSE IF e.key \in RecognizedKeys
         THEN [st EXCEPT !.settings[e.key] = Applied(e.key, e.value),
                         !.patch = Put(@, e.key, Applied(e.key, e.value))]
         ELSE st

RECURSIVE ReconcileFrom(_, _, _)
ReconcileFrom(delta, i, st) ==
    IF i > Len(delta) THEN st
    ELSE ReconcileFrom(delta, i + 1, ReconcileEntry(st, delta[i]))

\* the loop of onHandleDeviceProperties over the entries of a delta, in
\* property order, from the settings cur
Reconcile(cur, delta) ==
    ReconcileFrom(delta, 1, [settings |-> cur, patch |-> {}, threw |-> FALSE])

\* utils.emptyObj
emptyObj(patch) == patch = {}

\* fault variant of CompleteDelta: the gate is not one-shot, every completed
\* callback releases the waiter of a connected session again
CompleteDeltaRerunsReady(s) ==
    /\ deltaDone' = [deltaDone EXCEPT ![s] = @ + 1]
    /\ deferredStart' = [deferredStart EXCEPT ![s] = "resolved"]
    /\ IF connectPc[s] = "connected"
       THEN /\ deviceReadyCalls' = [deviceReadyCalls EXCEPT ![s] = @ + 1]
            /\ connectTelemetryCalls' = [connectTelemetryCalls EXCEPT ![s] = @ + 1]
       ELSE UNCHANGED readyVars
    /\ UNCHANGED connectPc

\* the end of AvaDevice.onHandleDeviceProperties: the gate is resolved
CompleteDelta(s) ==
    /\ deltaDone' = [deltaDone EXCEPT ![s] = @ + 1]
    /\ deferredStart' = [deferredStart EXCEPT ![s] = Resolve(@)]
    /\ UNCHANGED << readyVars, connectPc >>

\* a delta arrives: the settings are reconciled; when a patch was built and
\* nothing threw, the handler hands it to updateDeviceProperties and, with a twin
\* handle, waits for the update before it completes
onHandleDeviceProperties(s, delta) ==
    LET r == Reconcile(settings[s], delta)
        waits == (~r.threw) /\ (~emptyObj(r.patch)) /\ deviceTwin[s]
    IN  /\ lastOp' = NoOp
        /\ events < MaxEvents
        /\ events' = events + 1
        /\ twinListening[s]
        /\ settings' = [settings EXCEPT ![s] = r.settings]
        /\ patchedProperties' = [session |-> s, delta |-> delta, patch |-> r.patch,
                                 reported |-> (~r.threw) /\ ~emptyObj(r.patch)]
        /\ IF waits
           THEN /\ pendingDeltas' = [pendingDeltas EXCEPT ![s] = @ + 1]
                /\ UNCHANGED << deltaDone, deferredStart, readyVars, connectPc >>
           ELSE /\ CompleteDelta(s)
                /\ UNCHANGED pendingDeltas
        /\ UNCHANGED << avaInferenceDeviceMap, sessionCount, cameraId, deviceClient,
                        deviceTwin, clientOpen, twinListening, healthState,
                        livePipelineActive, timerVars, windowVars, now, iotcDevices >>
        /\ NoTick
        /\ NoHealthCheck

\* the reported-property update of a waiting delta callback returns
onHandleDevicePropertiesDone(s) ==
    /\ lastOp' = NoOp
    /\ pendingDeltas[s] > 0
    /\ pendingDeltas' = [pendingDeltas EXCEPT ![s] = @ - 1]
    /\ CompleteDelta(s)
    /\ UNCHANGED << avaInferenceDeviceMap, sessionCount, cameraId, deviceClient,
                    deviceTwin, clientOpen, twinListening, healthState,
                    livePipelineActive, timerVars, windowVars, now, events,
                    iotcDevices >>
    /\ NoReconcile
    /\ NoHealthCheck
    /\ NoTick

(* ------------------- AvaCameraDevice: command handlers ---------------- *)

\* the device-method handlers are registered on an open connection
MethodsRegistered(s) ==
    clientOpen[s] /\ connectPc[s] \in {"awaitSync", "reconnectSync", "connected"}

CmdResult(kind, s, cam, status, result, calls) ==
    [kind |-> kind, session |-> s, camera |-> cam,
     status |-> status, result |-> result, calls |-> calls,
     telemetry |-> << >>, health |-> "", heartbeats |-> {}, paramsOk |-> TRUE,
     closed |-> FALSE, assetName |-> NoAssetName, message |-> NoMessage,
     prepared |-> NoPreparation,
     dpsProvisionStatus |-> FALSE, dpsProvisionMessage |-> "",
     clientConnectionStatus |-> FALSE, clientConnectionMessage |-> ""]

\* startAvaProcessingInternal: the pipeline start for the outcomes o; the
\* instance document and the stream address do not decide whether it runs
startAvaProcessingInternal(s, o) == startAvaPipeline(o)

\* moment.utc().format('YYYYMMDD-HHmmss') of the instant t, which the clock counts
\* in whole seconds: the day, the hour, the minute and the second; the
\* milliseconds of the instant are not part of the text
UtcFormat(t) ==
    << t \div 86400, (t % 86400) \div 3600, (t % 3600) \div 60, t % 60 >>

\* AvaDevice.setPipelineParams: the asset name of a start of session s
setPipelineParams(s) ==
    [assetName |-> [appScopeId |-> "appScopeId", deviceId |-> "moduleDeviceId",
                    cameraId |-> cameraId[s], utc |-> UtcFormat(now)]]

\* getRtspStreamUrl: the payload of GetRTSPStreamURI when its status is 200, the
\* empty string when the status is another one or the request throws
getRtspStreamUrl(rtspO) == IF rtspO = "ok" THEN "rtsp://camera" ELSE ""

\* what startAvaProcessingInternal fetches before it starts the pipeline:
\* prep.document says whether getFileFromBlobStorage returns the instance
\* document (it returns undefined when the download fails), prep.rtspO is the
\* outcome of GetRTSPStreamURI.  Neither value is tested before startAvaPipeline
\* is called.
Prepare(prep) ==
    [document |-> prep.document, rtspUrl |-> getRtspStreamUrl(prep.rtspO)]

\* a request whose instance document is found and whose stream address resolves
Prepared == { [document |-> TRUE, rtspO |-> "ok"] }

Preparations == [document : BOOLEAN, rtspO : Outcomes]

\* fault variant of CameraStateTelemetry: the state is reported active
CameraStateActive(result) == [stCameraState |-> "active"]

\* the camera state startAvaProcessingInternal hands to sendMeasurement
CameraStateTelemetry(result) ==
    [stCameraState |-> IF result THEN "active" ELSE "inactive"]

\* fault variant of MissingParameters: no request is turned down
MissingNothing(paramsOk) == FALSE

\* a command request lacks a required parameter
MissingParameters(paramsOk) == ~paramsOk

\* cmStartAvaProcessing; paramsOk: both request parameters are present
startAvaProcessingDirectMethod(s, paramsOk, prep, o) ==
    LET r == startAvaProcessingInternal(s, o)
    IN  /\ MethodsRegistered(s)
        /\ events < MaxEvents
        /\ events' = events + 1
        /\ IF MissingParameters(paramsOk)
           THEN /\ lastOp' = [CmdResult("start", s, cameraId[s], 400, FALSE, << >>)
                                 EXCEPT !.paramsOk = paramsOk]
                /\ UNCHANGED << livePipelineActive, timerVars, windowVars >>
           ELSE /\ lastOp' = [CmdResult("start", s, cameraId[s],
                                         IF r.result THEN 200 ELSE 500,
                                         r.result, r.calls)
                                 EXCEPT !.paramsOk = paramsOk,
                                        !.prepared = Prepare(prep),
                                        !.assetName =
                                            setPipelineParams(s).assetName,
                                        !.telemetry =
                                            << CameraStateTelemetry(r.result) >>]
                /\ livePipelineActive' =
                       [livePipelineActive EXCEPT
                          ![cameraId[s]] = ActiveAfterStart(@, o)]
                /\ IF r.result
                   THEN /\ lastInferenceTime' =
                               [lastInferenceTime EXCEPT ![s] = Epoch]
                        /\ videoInferenceStartTime' =
                               [videoInferenceStartTime EXCEPT ![s] = now]
                        /\ createVideoLinkForInferenceTimeout' =
                               [createVideoLinkForInferenceTimeout EXCEPT ![s] = FALSE]
                        /\ inferenceInterval' = [inferenceInterval EXCEPT ![s] = TRUE]
                        /\ liveTimers' = [liveTimers EXCEPT ![s] = @ + 1]
                        /\ ticked' = [ticked EXCEPT ![s] = @ + 1]
                   ELSE UNCHANGED << timerVars, windowVars >>
        /\ UNCHANGED << avaInferenceDeviceMap, sessionCount, sessionVars, deltaVars,
                        readyVars, now, iotcDevices >>
        /\ NoReconcile
        /\ NoHealthCheck
        /\ NoTick

\* stopAvaProcessingInternal: clearInterval(this.inferenceInterval), then the
\* pipeline stop
ClearInterval(s) ==
    LET left == IF inferenceInterval[s] THEN liveTimers[s] - 1 ELSE liveTimers[s]
    IN  /\ liveTimers' = [liveTimers EXCEPT ![s] = left]
        /\ ticked' = [ticked EXCEPT ![s] = IF @ > left THEN left ELSE @]
        /\ inferenceInterval' = [inferenceInterval EXCEPT ![s] = FALSE]

\* cmStopAvaProcessing
stopAvaProcessingDirectMethod(s, o) ==
    LET r == stopAvaPipeline(o)
    IN  /\ MethodsRegistered(s)
        /\ events < MaxEvents
        /\ events' = events + 1
        /\ ClearInterval(s)
        /\ livePipelineActive' =
               [livePipelineActive EXCEPT
                  ![cameraId[s]] = ActiveAfterDeactivate(@, o)]
        /\ lastOp' = [CmdResult("stop", s, cameraId[s],
                                 IF r.result THEN 200 ELSE 500, r.result, r.calls)
                         EXCEPT !.telemetry =
                                    IF r.result THEN << CameraStateTelemetry(FALSE) >>
                                    ELSE << >>]
        /\ UNCHANGED << avaInferenceDeviceMap, sessionCount, sessionVars, deltaVars,
                        readyVars, windowVars, now, iotcDevices >>
        /\ NoReconcile
        /\ NoHealthCheck
        /\ NoTick

\* restartCamera: the Reboot request to the ONVIF module
restartCamera(rebootO) ==
    [result |-> Success(rebootO), calls |-> << "Reboot" >>]

\* cmRestartCamera: stopAvaProcessingInternal, whose result is dropped, then
\* restartCamera
restartCameraDirectMethod(s, o, rebootO) ==
    LET stopped == stopAvaPipeline(o)
        r == restartCamera(rebootO)
    IN  /\ MethodsRegistered(s)
        /\ events < MaxEvents
        /\ events' = events + 1
        /\ ClearInterval(s)
        /\ livePipelineActive' =
               [livePipelineActive EXCEPT
                  ![cameraId[s]] = ActiveAfterDeactivate(@, o)]
        /\ lastOp' = CmdResult("restart", s, cameraId[s],
                                IF r.result THEN 200 ELSE 500, r.result,
                                stopped.calls \o r.calls)
        /\ UNCHANGED << avaInferenceDeviceMap, sessionCount, sessionVars, deltaVars,
                        readyVars, windowVars, now, iotcDevices >>
        /\ NoReconcile
        /\ NoHealthCheck
        /\ NoTick

\* captureImage for the outcome snapO of the GetSnapshot request and uploadO
\* of the upload to blob storage ("fail": no blob address comes back)
captureImage(snapO, uploadO) ==
    LET uploaded == snapO = "ok" /\ uploadO = "ok"
    IN  [ calls |-> IF snapO = "ok" THEN << "GetSnapshot", "uploadBase64ImageToContainer" >>
                    ELSE << "GetSnapshot" >>,
          result |-> uploaded,
          telemetry |-> IF uploaded THEN << [evUploadImage |-> "blobUrl"] >>
                        ELSE << >> ]

\* cmCaptureImage; paramsOk: the media-profile token is present
captureImageDirectMethod(s, paramsOk, snapO, uploadO) ==
    LET r == captureImage(snapO, uploadO)
    IN  /\ MethodsRegistered(s)
        /\ events < MaxEvents
        /\ events' = events + 1
        /\ lastOp' =
              IF MissingParameters(paramsOk)
              THEN [CmdResult("capture", s, cameraId[s], 400, FALSE, << >>)
                      EXCEPT !.paramsOk = paramsOk]
              ELSE [CmdResult("capture", s, cameraId[s],
                              IF r.result THEN 200 ELSE 500, r.result, r.calls)
                      EXCEPT !.paramsOk = paramsOk, !.telemetry = r.telemetry]
        /\ UNCHANGED << avaInferenceDeviceMap, sessionCount, sessionVars, deltaVars,
                        readyVars, livePipelineActive, timerVars, windowVars, now,
                        iotcDevices >>
        /\ NoReconcile
        /\ NoTick
        /\ NoHealthCheck

\* fault variant of onDeviceClientError: the handles are kept
onDeviceClientErrorKeepsHandles(s) ==
    /\ lastOp' = NoOp
    /\ events < MaxEvents
    /\ events' = events + 1
    /\ clientOpen[s]
    /\ deviceClient[s]
    /\ healthState' = [healthState EXCEPT ![s] = "critical"]
    /\ UNCHANGED << avaInferenceDeviceMap, sessionCount, cameraId, connectPc,
                    deviceClient, deviceTwin, clientOpen, twinListening,
                    deferredStart, deltaVars, readyVars, livePipelineActive,
                    timerVars, windowVars, now, iotcDevices >>
    /\ NoReconcile
    /\ NoHealthCheck
    /\ NoTick

\* the 'error' event of the shadow connection
onDeviceClientError(s) ==
    /\ lastOp' = NoOp
    /\ events < MaxEvents
    /\ events' = events + 1
    /\ clientOpen[s]
    /\ deviceClient[s]
    /\ deviceClient' = [deviceClient EXCEPT ![s] = FALSE]
    /\ deviceTwin' = [deviceTwin EXCEPT ![s] = FALSE]
    /\ healthState' = [healthState EXCEPT ![s] = "critical"]
    /\ UNCHANGED << avaInferenceDeviceMap, sessionCount, cameraId, connectPc,
                    clientOpen, twinListening, deferredStart, deltaVars, readyVars,
                    livePipelineActive, timerVars, windowVars, now, iotcDevices >>
    /\ NoReconcile
    /\ NoHealthCheck
    /\ NoTick

\* AvaDevice.processAvaInferences for a non-empty inference array, routed to the
\* session the map holds for the camera
processAvaInferences(s) ==
    /\ lastOp' = NoOp
    /\ cameraId[s] \in Cameras
    /\ avaInferenceDeviceMap[cameraId[s]] = s
    /\ deviceClient[s]
    /\ lastInferenceTime[s] # now
    /\ lastInferenceTime' = [lastInferenceTime EXCEPT ![s] = now]
    /\ UNCHANGED << avaInferenceDeviceMap, sessionCount, sessionVars, deltaVars,
                    readyVars, livePipelineActive, timerVars, videoInferenceStartTime,
                    createVideoLinkForInferenceTimeout, now, events, iotcDevices >>
    /\ NoReconcile
    /\ NoHealthCheck
    /\ NoTick

(* ------------------- AvaCameraDevice: the inference timer ------------- *)
(* device.ts 563-607 and the setInterval of 829-831.  A timer fires once a *)
(* second.  The callback waits for sendMeasurement when it sends a link;   *)
(* the part after the wait is inferenceTimerResume.                        *)

\* the period of the setInterval timer, in seconds
TickPeriod == 1

\* the settings the callback reads, in seconds; they hold numbers in every
\* specification that lets a timer fire
InferenceTimeout(s) == settings[s]["wpInferenceTimeout"].n
MaxVideoInferenceTime(s) == settings[s]["wpMaxVideoInferenceTime"].n

\* the video link for the window that started at start; cause and at record the
\* branch that sent it and the time of the send
createInferenceVideoLink(start, duration, cause) ==
    [start |-> start, duration |-> duration, cause |-> cause, at |-> now]

\* fault variant of FlagAfterTimeout: the flag is left as it is
FlagLeftSet(flag) == flag

\* createVideoLinkForInferenceTimeout after the timeout branch
FlagAfterTimeout(flag) == FALSE

\* one callback of a live timer of session s, up to its first wait
inferenceTimer(s) ==
    LET videoInferenceDuration == now - videoInferenceStartTime[s]
        timedOut == now - lastInferenceTime[s] >= InferenceTimeout(s)
        cause == IF timedOut THEN "timeout" ELSE "max"
        sends == IF timedOut THEN createVideoLinkForInferenceTimeout[s]
                 ELSE videoInferenceDuration >= MaxVideoInferenceTime(s)
        waits == sends /\ deviceClient[s]
    IN  /\ lastOp' = NoOp
        /\ ticked[s] < liveTimers[s]
        /\ waits => (tickPending[s] < MaxPending /\ Len(links[s]) < MaxLinks)
        /\ ticked' = [ticked EXCEPT ![s] = @ + 1]
        /\ createVideoLinkForInferenceTimeout' =
               [createVideoLinkForInferenceTimeout EXCEPT
                  ![s] = IF timedOut THEN FlagAfterTimeout(@) ELSE TRUE]
        /\ links' = [links EXCEPT
                       ![s] = IF waits
                              THEN Append(@, createInferenceVideoLink(
                                                videoInferenceStartTime[s],
                                                videoInferenceDuration, cause))
                              ELSE @]
        /\ tickPending' = [tickPending EXCEPT ![s] = IF waits THEN @ + 1 ELSE @]
        /\ videoInferenceStartTime' =
               [videoInferenceStartTime EXCEPT
                  ![s] = IF (~waits) /\ (timedOut \/ sends) THEN now ELSE @]
        /\ UNCHANGED << avaInferenceDeviceMap, sessionCount, sessionVars, deltaVars,
                        readyVars, livePipelineActive, inferenceInterval, liveTimers,
                        lastInferenceTime, now, events, iotcDevices >>
        /\ NoReconcile
        /\ NoHealthCheck

\* the send of a waiting callback returns: videoInferenceStartTime = moment.utc()
inferenceTimerResume(s) ==
    /\ lastOp' = NoOp
    /\ tickPending[s] > 0
    /\ tickPending' = [tickPending EXCEPT ![s] = @ - 1]
    /\ videoInferenceStartTime' = [videoInferenceStartTime EXCEPT ![s] = now]
    /\ UNCHANGED << avaInferenceDeviceMap, sessionCount, sessionVars, deltaVars,
                    readyVars, livePipelineActive, timerVars, lastInferenceTime,
                    createVideoLinkForInferenceTimeout, now, events, iotcDevices,
                    links >>
    /\ NoReconcile
    /\ NoHealthCheck

\* a second passes once every live timer has fired
Advance ==
    /\ lastOp' = NoOp
    /\ now < Boot + MaxTime
    /\ \A s \in Sessions : ticked[s] >= liveTimers[s]
    /\ now' = now + TickPeriod
    /\ ticked' = [s \in Sessions |-> 0]
    /\ UNCHANGED << avaInferenceDeviceMap, sessionCount, sessionVars, deltaVars,
                    readyVars, livePipelineActive, inferenceInterval, liveTimers,
                    windowVars, events, iotcDevices >>
    /\ NoReconcile
    /\ NoHealthCheck
    /\ NoTick

(* ------------------- deleteCamera and deprovision --------------------- *)

\* fault variant of deleteCamera: no catch, a throwing close() reaches the caller
deleteCameraRethrows(s, d, closeO) ==
    LET p == deleteAvaPipeline(d)
        closeThrew == deviceClient[s] /\ closeO = "throw"
    IN  [ calls |-> IF deviceClient[s] THEN Append(p.calls, "client.close")
                    ELSE p.calls,
          threw |-> closeThrew,
          deviceClient |-> IF closeThrew THEN deviceClient[s] ELSE FALSE,
          deviceTwin |-> IF closeThrew THEN deviceTwin[s] ELSE FALSE,
          clientOpen |-> IF deviceClient[s] /\ closeO = "ok" THEN FALSE
                         ELSE clientOpen[s],
          twinListening |-> IF deviceTwin[s] \/ (deviceClient[s] /\ closeO = "ok")
                            THEN FALSE ELSE twinListening[s] ]

\* AvaCameraDevice.deleteCamera for the outcomes d of the pipeline delete and
\* closeO of deviceClient.close(): the sub-steps it reaches and the handles it
\* leaves.  Everything runs in one try block whose catch only logs.
deleteCamera(s, d, closeO) ==
    LET p == deleteAvaPipeline(d)
        c1 == IF deviceTwin[s] THEN Append(p.calls, "twin.removeAllListeners")
              ELSE p.calls
        c2 == IF deviceClient[s]
              THEN c1 \o << "client.removeAllListeners", "client.close" >>
              ELSE c1
        closeThrew == deviceClient[s] /\ closeO = "throw"
    IN  [ calls |-> c2,
          threw |-> FALSE,
          deviceClient |-> IF closeThrew THEN deviceClient[s] ELSE FALSE,
          deviceTwin |-> IF closeThrew THEN deviceTwin[s] ELSE FALSE,
          clientOpen |-> IF deviceClient[s] /\ closeO = "ok" THEN FALSE
                         ELSE clientOpen[s],
          twinListening |-> IF deviceTwin[s] \/ (deviceClient[s] /\ closeO = "ok")
                            THEN FALSE ELSE twinListening[s] ]

\* fault variant of DeprovisionResult: a failed pipeline delete fails the
\* deprovision
DeprovisionResultStrict(r, apiO) ==
    (~r.threw) /\ apiO = "ok" /\ Has(r.calls, "deleteTopology")

\* the boolean deprovisionAvaInferenceDevice returns: true is assigned after
\* the identity deletion request returned
DeprovisionResult(r, apiO) ==
    (~r.threw) /\ apiO = "ok"

\* deprovisionAvaInferenceDevice(cameraId); apiO: the outcome of the request
\* that deletes the device identity in IoT Central.  The request is made after
\* deleteCamera and the map removal unless one of them threw.
deprovisionAvaInferenceDevice(cam, d, closeO, apiO) ==
    LET s == avaInferenceDeviceMap[cam]
        r == IF s # NoSession THEN deleteCamera(s, d, closeO)
             ELSE [calls |-> << >>, threw |-> FALSE]
        requested == ~r.threw
    IN  /\ events < MaxEvents
        /\ events' = events + 1
        /\ IF s # NoSession
           THEN /\ deviceClient' = [deviceClient EXCEPT ![s] = r.deviceClient]
                /\ deviceTwin' = [deviceTwin EXCEPT ![s] = r.deviceTwin]
                /\ clientOpen' = [clientOpen EXCEPT ![s] = r.clientOpen]
                /\ twinListening' = [twinListening EXCEPT ![s] = r.twinListening]
                /\ livePipelineActive' =
                       [livePipelineActive EXCEPT
                          ![cam] = ActiveAfterDeactivate(@, d[1])]
                /\ avaInferenceDeviceMap' =
                       IF r.threw THEN avaInferenceDeviceMap
                       ELSE [avaInferenceDeviceMap EXCEPT ![cam] = NoSession]
           ELSE UNCHANGED << deviceClient, deviceTwin, clientOpen, twinListening,
                             livePipelineActive, avaInferenceDeviceMap >>
        /\ iotcDevices' = IF requested /\ apiO = "ok" THEN iotcDevices \ {cam}
                          ELSE iotcDevices
        /\ lastOp' = CmdResult("deprovision", s, cam, 0,
                                DeprovisionResult(r, apiO),
                                IF requested THEN Append(r.calls, "iotcApiRequest")
                                ELSE r.calls)
        /\ UNCHANGED << sessionCount, cameraId, connectPc, deferredStart, healthState,
                        deltaVars, readyVars, timerVars, windowVars, now >>
        /\ NoReconcile
        /\ NoHealthCheck
        /\ NoTick

(* ------------------- health checks ------------------------------------ *)
(* AvaCameraDevice.getHealth (device.ts 217-224) and CameraGatewayService   *)
(* getHealth, onModuleClientError, onModuleReady, restartModule (part_002). *)

\* HealthState as a number: Good above Warning above Critical
HealthLevel(h) ==
    CASE h = "good" -> 2
      [] h = "warning" -> 1
      [] OTHER -> 0

\* fault variant of HealthReturned: the level at construction is returned
HealthReturnedAsConstructed(s) == "good"

\* the level AvaCameraDevice.getHealth returns
HealthReturned(s) == healthState[s]

\* AvaCameraDevice.getHealth of session s: the heartbeat it hands to
\* sendMeasurement and the level it returns
getHealth(s) ==
    [session |-> s, heartbeat |-> healthState[s], returned |-> HealthReturned(s)]

\* fault variant of RestartDue: the restart comes one check late
RestartOverdue(streak, retries) == streak > retries

\* the test that sends the health check into restartModule
RestartDue(streak, retries) == streak >= retries

\* free-memory samples of a health check
FreeMemorySamples == {0, 1024}

\* CameraGatewayService.getHealth for the free-memory sample and the outcome
\* sendO of the module's sendMeasurement; every registered session is asked for
\* its health and the answers are dropped (forget); restartModule ends in
\* process.exit
gatewayGetHealth(freeMemory, sendO) ==
    LET sampled == IF gatewayHealthState = "good" /\ freeMemory = 0
                   THEN "critical" ELSE gatewayHealthState
        threw == gatewayHealthState = "good" /\ sendO = "throw"
        after == IF threw THEN "critical" ELSE sampled
        failed == HealthLevel(after) < HealthLevel("good")
        streak == IF failed THEN healthCheckFailStreak + 1 ELSE healthCheckFailStreak
        asked == IF threw THEN {}
                 ELSE { avaInferenceDeviceMap[c] : c \in Cameras } \ {NoSession}
    IN  /\ ~exited
        /\ events < MaxEvents
        /\ events' = events + 1
        /\ gatewayHealthState' = after
        /\ healthCheckFailStreak' = streak
        /\ exited' = (failed /\ RestartDue(streak, healthCheckRetries))
        /\ restart' = IF failed /\ RestartDue(streak, healthCheckRetries)
                      THEN [pc |-> "done", reason |-> "checkHealthState",
                            timeout |-> 0, waited |-> 0, emitted |-> TRUE,
                            responded |-> FALSE]
                      ELSE restart
        /\ lastOp' = [NoOp EXCEPT !.kind = "health", !.result = ~failed,
                                  !.health = after,
                                  !.heartbeats = { getHealth(s) : s \in asked }]
        /\ UNCHANGED << avaInferenceDeviceMap, sessionCount, sessionVars, deltaVars,
                        readyVars, livePipelineActive, timerVars, windowVars, now,
                        iotcDevices, healthCheckRetries, moduleSettings >>
        /\ NoReconcile
        /\ NoTick

\* the 'error' event of the module client
onModuleClientError ==
    /\ ~exited
    /\ events < MaxEvents
    /\ events' = events + 1
    /\ gatewayHealthState' = "critical"
    /\ lastOp' = NoOp
    /\ UNCHANGED << avaInferenceDeviceMap, sessionCount, sessionVars, deltaVars,
                    readyVars, livePipelineActive, timerVars, windowVars, now,
                    iotcDevices, healthCheckFailStreak, healthCheckRetries, exited,
                    restart, moduleSettings >>
    /\ NoReconcile
    /\ NoTick

\* onModuleReady with the value of process.env.healthCheckRetries as a number
\* (0: unset or not a number) and with or without a module client; the device
\* list of recreateExistingDevices holds no device of this gateway
onModuleReady(envRetries, moduleClient) ==
    /\ ~exited
    /\ events < MaxEvents
    /\ events' = events + 1
    /\ healthCheckRetries' = IF envRetries = 0 THEN defaultHealthCheckRetries
                             ELSE envRetries
    /\ gatewayHealthState' = IF moduleClient THEN "good" ELSE "critical"
    /\ lastOp' = NoOp
    /\ UNCHANGED << avaInferenceDeviceMap, sessionCount, sessionVars, deltaVars,
                    readyVars, livePipelineActive, timerVars, windowVars, now,
                    iotcDevices, healthCheckFailStreak, exited, restart,
                    moduleSettings >>
    /\ NoReconcile
    /\ NoTick

(* ------------------------------ specification ------------------------- *)

\* Outcomes of the three calls of a pipeline start / delete.  A call that is not
\* reached has no outcome: its entry is fixed to "ok".
StartOutcomes ==
    { o \in [1..3 -> Outcomes] :
        \A i \in 1..2 : o[i] # "ok" => \A j \in (i+1)..3 : o[j] = "ok" }

DeleteOutcomes ==
    { d \in [1..3 -> Outcomes] :
        \A i \in 1..2 : d[i] = "throw" => \A j \in (i+1)..3 : d[j] = "ok" }

\* deltas of the gateway specification: the empty delta and a delta with one
\* recognized setting
GatewayDeltas ==
    { << >>,
      << [key |-> VersionKey, value |-> Num(1)],
         [key |-> "wpDebugTelemetry", value |-> Obj(TRUE, Bool(TRUE))] >> }

Next ==
    \/ \E cam \in Cameras \cup {NoCamera}, in \in CreateInputs :
          createAvaInferenceDevice(cam, in)
    \/ \E s \in Sessions : createAvaInferenceDeviceResume(s)
    \/ \E s \in Sessions, delta \in GatewayDeltas : onHandleDeviceProperties(s, delta)
    \/ \E s \in Sessions : onHandleDevicePropertiesDone(s)
    \/ \E s \in Sessions, paramsOk \in BOOLEAN, prep \in Prepared,
          o \in StartOutcomes :
          startAvaProcessingDirectMethod(s, paramsOk, prep, o)
    \/ \E s \in Sessions, o \in Outcomes : stopAvaProcessingDirectMethod(s, o)
    \/ \E s \in Sessions : onDeviceClientError(s)
    \/ \E s \in Sessions : processAvaInferences(s)
    \/ \E cam \in Cameras, d \in DeleteOutcomes, closeO \in {"ok", "throw"},
          apiO \in {"ok", "throw"} :
          deprovisionAvaInferenceDevice(cam, d, closeO, apiO)

Spec == Init /\ [][Next]_vars

(* ------------------- specification of the reconciliation -------------- *)

\* session 1 is connected and registered for camera 1, as after a successful
\* createAvaInferenceDevice
ConnectedInit ==
    /\ avaInferenceDeviceMap = [c \in Cameras |-> IF c = 1 THEN 1 ELSE NoSession]
    /\ sessionCount = 1
    /\ cameraId = [s \in Sessions |-> IF s = 1 THEN 1 ELSE NoCamera]
    /\ connectPc = [s \in Sessions |-> IF s = 1 THEN "connected" ELSE "unborn"]
    /\ deviceClient = [s \in Sessions |-> s = 1]
    /\ deviceTwin = [s \in Sessions |-> s = 1]
    /\ clientOpen = [s \in Sessions |-> s = 1]
    /\ twinListening = [s \in Sessions |-> s = 1]
    /\ deferredStart = [s \in Sessions |-> IF s = 1 THEN "resolved" ELSE "pending"]
    /\ healthState = [s \in Sessions |-> "good"]
    /\ pendingDeltas = [s \in Sessions |-> 0]
    /\ deltaDone = [s \in Sessions |-> IF s = 1 THEN 1 ELSE 0]
    /\ deviceReadyCalls = [s \in Sessions |-> IF s = 1 THEN 1 ELSE 0]
    /\ connectTelemetryCalls = [s \in Sessions |-> IF s = 1 THEN 1 ELSE 0]
    /\ livePipelineActive = [c \in Cameras |-> FALSE]
    /\ inferenceInterval = [s \in Sessions |-> FALSE]
    /\ liveTimers = [s \in Sessions |-> 0]
    /\ lastInferenceTime = [s \in Sessions |-> Epoch]
    /\ videoInferenceStartTime = [s \in Sessions |-> IF s = 1 THEN Boot ELSE 0]
    /\ createVideoLinkForInferenceTimeout = [s \in Sessions |-> FALSE]
    /\ now = Boot
    /\ lastOp = NoOp
    /\ iotcDevices = {1}
    /\ settings = [s \in Sessions |-> InitialSettings]
    /\ patchedProperties = NoPatch
    /\ ticked = [s \in Sessions |-> 0]
    /\ tickPending = [s \in Sessions |-> 0]
    /\ links = [s \in Sessions |-> << >>]
    /\ HealthInit

\* values of the entries of a delta
DeltaValues ==
    { Undefined, Null, Num(0), Bool(FALSE), Str(""), Num(7),
      Obj(TRUE, Undefined), Obj(TRUE, Null), Obj(TRUE, Num(0)), Obj(TRUE, Num(7)),
      Obj(FALSE, Undefined) }

\* values of the entries of a delta with two entries
PairValues == { Null, Num(7), Obj(TRUE, Undefined) }

DeltaKeys == RecognizedKeys \cup {VersionKey, "unknownKey"}

\* the empty delta, the deltas with one entry and deltas with two entries of
\* different keys
ReconcileDeltas ==
    { << >> }
    \cup { << [key |-> k, value |-> v] >> : k \in DeltaKeys, v \in DeltaValues }
    \cup { << [key |-> e[1], value |-> e[2]], [key |-> e[3], value |-> e[4]] >> :
             e \in { x \in DeltaKeys \X PairValues \X DeltaKeys \X PairValues :
                       x[1] # x[3] } }

\* two deltas are reconciled
ReconcileInit == ConnectedInit /\ events = MaxEvents - 2

ReconcileNext ==
    \/ \E s \in Sessions, delta \in ReconcileDeltas : onHandleDeviceProperties(s, delta)
    \/ \E s \in Sessions : onHandleDevicePropertiesDone(s)

ReconcileSpec == ReconcileInit /\ [][ReconcileNext]_vars

(* ------------------- specifications of the inference timer ------------ *)

\* session 1 after a successful cmStartAvaProcessing at time t: the pipeline of
\* its camera is active and its timer is set
Started(t) ==
    /\ avaInferenceDeviceMap = [c \in Cameras |-> IF c = 1 THEN 1 ELSE NoSession]
    /\ sessionCount = 1
    /\ cameraId = [s \in Sessions |-> IF s = 1 THEN 1 ELSE NoCamera]
    /\ connectPc = [s \in Sessions |-> IF s = 1 THEN "connected" ELSE "unborn"]
    /\ deviceClient = [s \in Sessions |-> s = 1]
    /\ deviceTwin = [s \in Sessions |-> s = 1]
    /\ clientOpen = [s \in Sessions |-> s = 1]
    /\ twinListening = [s \in Sessions |-> s = 1]
    /\ deferredStart = [s \in Sessions |-> IF s = 1 THEN "resolved" ELSE "pending"]
    /\ healthState = [s \in Sessions |-> "good"]
    /\ pendingDeltas = [s \in Sessions |-> 0]
    /\ deltaDone = [s \in Sessions |-> IF s = 1 THEN 1 ELSE 0]
    /\ deviceReadyCalls = [s \in Sessions |-> IF s = 1 THEN 1 ELSE 0]
    /\ connectTelemetryCalls = [s \in Sessions |-> IF s = 1 THEN 1 ELSE 0]
    /\ livePipelineActive = [c \in Cameras |-> c = 1]
    /\ inferenceInterval = [s \in Sessions |-> s = 1]
    /\ liveTimers = [s \in Sessions |-> IF s = 1 THEN 1 ELSE 0]
    /\ ticked = [s \in Sessions |-> IF s = 1 THEN 1 ELSE 0]
    /\ lastInferenceTime = [s \in Sessions |-> Epoch]
    /\ videoInferenceStartTime = [s \in Sessions |-> IF s = 1 THEN t ELSE 0]
    /\ createVideoLinkForInferenceTimeout = [s \in Sessions |-> FALSE]
    /\ now = t
    /\ lastOp = NoOp
    /\ iotcDevices = {1}
    /\ settings = [s \in Sessions |-> InitialSettings]
    /\ patchedProperties = NoPatch
    /\ tickPending = [s \in Sessions |-> 0]
    /\ links = [s \in Sessions |-> << >>]
    /\ HealthInit

\* the timer runs and inferences arrive; no command is handled
WindowInit == Started(Boot) /\ events = MaxEvents

WindowNext ==
    \/ \E s \in Sessions : inferenceTimer(s)
    \/ \E s \in Sessions : inferenceTimerResume(s)
    \/ \E s \in Sessions : processAvaInferences(s)
    \/ Advance

TimerSpec == WindowInit /\ [][WindowNext]_vars

\* the timer runs and two commands are handled, in the last seconds of the
\* clock
TeardownInit == Started(Boot + MaxTime - MaxTeardownTime) /\ events = MaxEvents - 2

TeardownNext ==
    \/ \E s \in Sessions : inferenceTimer(s)
    \/ Advance
    \/ \E s \in Sessions, o \in StartOutcomes :
          startAvaProcessingDirectMethod(s, TRUE, CHOOSE prep \in Prepared : TRUE, o)
    \/ \E s \in Sessions, o \in Outcomes : stopAvaProcessingDirectMethod(s, o)
    \/ \E cam \in Cameras, d \in DeleteOutcomes, closeO \in {"ok", "throw"},
          apiO \in {"ok", "throw"} :
          deprovisionAvaInferenceDevice(cam, d, closeO, apiO)

TeardownSpec == TeardownInit /\ [][TeardownNext]_vars

(* ------------------- CameraGatewayService: routed messages ------------ *)
(* The subject property of a message is kept as what subject.split('/')    *)
(* yields: the number of path elements, the second and the third element.  *)
(* The text of a pipeline name is a sequence whose elements stand for the  *)
(* characters: Underscore for '_', a camera number for the text of that    *)
(* camera's id.  The id of camera c is the text << c >>.                   *)

Underscore == 0 - 1

\* pipelineInstanceName.indexOf('_') + 1
IndexAfterUnderscore(name) ==
    IF \E i \in 1..Len(name) : name[i] = Underscore
    THEN (CHOOSE i \in 1..Len(name) :
             /\ name[i] = Underscore
             /\ \A j \in 1..(i - 1) : name[j] # Underscore)
    ELSE 0

\* AvaPipeline.getCameraIdFromAvaMessage; << >> is the empty string
getCameraIdFromAvaMessage(subject) ==
    IF subject.length >= 3 /\ subject.second = "livePipelines"
          /\ subject.third # << >>
    THEN SubSeq(subject.third, IndexAfterUnderscore(subject.third) + 1,
                Len(subject.third))
    ELSE << >>

\* fault variant of RegistryGet: the session of camera 1 whatever the id
RegistryFirst(id) == avaInferenceDeviceMap[1]

\* this.avaInferenceDeviceMap.get(cameraId)
RegistryGet(id) ==
    IF \E c \in Cameras : << c >> = id
    THEN avaInferenceDeviceMap[CHOOSE c \in Cameras : << c >> = id]
    ELSE NoSession

\* onHandleModuleProperties for a delta that holds wpDebugTelemetry
onHandleModuleProperties(value) ==
    /\ ~exited
    /\ events < MaxEvents
    /\ events' = events + 1
    /\ moduleSettings' = [moduleSettings EXCEPT !.wpDebugTelemetry = value]
    /\ lastOp' = NoOp
    /\ UNCHANGED << avaInferenceDeviceMap, sessionCount, sessionVars, deltaVars,
                    readyVars, livePipelineActive, timerVars, windowVars, now,
                    iotcDevices, healthVars >>
    /\ NoReconcile
    /\ NoTick

\* onHandleDownstreamMessages for the inputs of the pipeline module.  body:
\* "empty" no bytes, "malformed" JSON.parse throws (caught and logged), "json" a
\* document, which holds a non-empty inference array on the telemetry input.
\* lastOp.calls: what the handler did with the message.
onHandleDownstreamMessages(inputName, subject, body) ==
    LET debug == moduleSettings.wpDebugTelemetry
        skipped == inputName = "avaDiagnostics" /\ ~debug
        id == getCameraIdFromAvaMessage(subject)
        s == RegistryGet(id)
        routed == (~skipped) /\ body = "json" /\ id # << >> /\ s # NoSession
        calls == IF skipped \/ body = "empty" THEN << >>
                 ELSE IF body = "malformed" THEN << "log" >>
                 ELSE IF id = << >> THEN (IF debug THEN << "log" >> ELSE << >>)
                 ELSE IF s = NoSession THEN << "log" >>
                 ELSE IF inputName = "avaTelemetry"
                      THEN << "processAvaInferences" >>
                      ELSE << "sendAvaEvent" >>
        processed == routed /\ inputName = "avaTelemetry" /\ deviceClient[s]
    IN  /\ ~exited
        /\ events < MaxEvents
        /\ events' = events + 1
        /\ lastOp' = [NoOp EXCEPT !.kind = "route",
                                  !.session = IF routed THEN s ELSE NoSession,
                                  !.result = routed,
                                  !.calls = calls,
                                  !.message = [inputName |-> inputName,
                                               subject |-> subject,
                                               body |-> body]]
        /\ lastInferenceTime' = IF processed
                                THEN [lastInferenceTime EXCEPT ![s] = now]
                                ELSE lastInferenceTime
        /\ UNCHANGED << avaInferenceDeviceMap, sessionCount, sessionVars, deltaVars,
                        readyVars, livePipelineActive, timerVars,
                        videoInferenceStartTime, createVideoLinkForInferenceTimeout,
                        now, iotcDevices, healthVars, moduleSettings >>
        /\ NoReconcile
        /\ NoTick

(* ------------------- specification of commands and health checks ----- *)

\* values of process.env.healthCheckRetries as a number
EnvRetries == {0, 2}

\* a connected, registered session handles commands and deltas while the
\* gateway checks its health
HealthSpecInit == ConnectedInit /\ events = 0

HealthSpecNext ==
    \/ \E freeMemory \in FreeMemorySamples, sendO \in {"ok", "throw"} :
          gatewayGetHealth(freeMemory, sendO)
    \/ onModuleClientError
    \/ \E envRetries \in EnvRetries, moduleClient \in BOOLEAN :
          onModuleReady(envRetries, moduleClient)
    \/ \E s \in Sessions : onDeviceClientError(s)
    \/ \E s \in Sessions, paramsOk \in BOOLEAN, prep \in Prepared,
          o \in StartOutcomes :
          startAvaProcessingDirectMethod(s, paramsOk, prep, o)
    \/ \E s \in Sessions, o \in Outcomes : stopAvaProcessingDirectMethod(s, o)
    \/ \E s \in Sessions, paramsOk \in BOOLEAN, snapO \in Outcomes,
          uploadO \in Outcomes :
          captureImageDirectMethod(s, paramsOk, snapO, uploadO)
    \/ \E s \in Sessions, delta \in GatewayDeltas : onHandleDeviceProperties(s, delta)
    \/ \E s \in Sessions : onHandleDevicePropertiesDone(s)
    \/ \E cam \in Cameras, d \in DeleteOutcomes, closeO \in {"ok", "throw"},
          apiO \in {"ok", "throw"} :
          deprovisionAvaInferenceDevice(cam, d, closeO, apiO)

HealthSpec == HealthSpecInit /\ [][HealthSpecNext]_vars

(* ------------------- specification of repeated connects --------------- *)

\* sessions are created with every outcome of their first connect and connect
\* is called on them again
ConnectSpecNext ==
    \/ \E cam \in Cameras, in \in ConnectFailures \cup {"ok"} :
          createAvaInferenceDevice(cam, in)
    \/ \E s \in Sessions : createAvaInferenceDeviceResume(s)
    \/ \E s \in Sessions, delta \in GatewayDeltas : onHandleDeviceProperties(s, delta)
    \/ \E s \in Sessions : onHandleDevicePropertiesDone(s)
    \/ \E s \in Sessions, in \in ConnectFailures \cup {"ok"},
          closeO \in {"ok", "throw"} :
          connectDeviceClient(s, in, closeO)
    \/ \E s \in Sessions : connectDeviceClientResume(s)

ConnectSpec == Init /\ [][ConnectSpecNext]_vars

(* ------------------- specification of the message routing ------------ *)

Path(n, second, third) == [length |-> n, second |-> second, third |-> third]

\* subjects of routed messages: none, pipelines named after camera 1 and 2, a
\* name with a prefix before the underscore, names that leave no id, other paths
Subjects ==
    { Path(0, "", << >>),
      Path(3, "livePipelines", << 1 >>),
      Path(5, "livePipelines", << 2 >>),
      Path(3, "livePipelines", << 2, Underscore, 1 >>),
      Path(3, "livePipelines", << 1, Underscore >>),
      Path(3, "livePipelines", << >>),
      Path(2, "livePipelines", << >>),
      Path(3, "pipelineTopologies", << 1 >>) }

PipelineInputs == {"avaDiagnostics", "avaOperational", "avaTelemetry"}

RouteInit == ConnectedInit /\ events = 0

RouteNext ==
    \/ \E inputName \in PipelineInputs, subject \in Subjects,
          body \in {"empty", "malformed", "json"} :
          onHandleDownstreamMessages(inputName, subject, body)
    \/ \E value \in BOOLEAN : onHandleModuleProperties(value)
    \/ \E cam \in Cameras : createAvaInferenceDevice(cam, "ok")
    \/ \E s \in Sessions : createAvaInferenceDeviceResume(s)
    \/ \E s \in Sessions : onHandleDeviceProperties(s, << >>)
    \/ \E s \in Sessions : onDeviceClientError(s)
    \/ \E cam \in Cameras, closeO \in {"ok", "throw"} :
          deprovisionAvaInferenceDevice(cam, [i \in 1..3 |-> "ok"], closeO, "ok")

RouteSpec == RouteInit /\ [][RouteNext]_vars

(* ------------------- specification of the start command --------------- *)

\* a connected session is started with every outcome of the download of the
\* instance document, of the stream address and of the pipeline calls; the
\* remote module does not accept the livePipelineSet of a missing document
StartInputs ==
    { in \in Preparations \X StartOutcomes : in[1].document \/ in[2][2] # "ok" }

StartSpecNext ==
    \/ \E s \in Sessions, paramsOk \in BOOLEAN, in \in StartInputs :
          startAvaProcessingDirectMethod(s, paramsOk, in[1], in[2])
    \/ \E s \in Sessions, o \in Outcomes : stopAvaProcessingDirectMethod(s, o)
    \/ \E s \in Sessions, o \in Outcomes, rebootO \in Outcomes :
          restartCameraDirectMethod(s, o, rebootO)
    \/ \E cam \in Cameras, d \in DeleteOutcomes, closeO \in {"ok", "throw"},
          apiO \in {"ok", "throw"} :
          deprovisionAvaInferenceDevice(cam, d, closeO, apiO)
    \/ \E s \in Sessions : onDeviceClientError(s)

StartSpec == HealthSpecInit /\ [][StartSpecNext]_vars

(* ------------------------------ properties ---------------------------- *)

IsPrefix(a, b) == Len(a) <= Len(b) /\ \A i \in 1..Len(a) : a[i] = b[i]

StartOrder == << "setTopology", "setInstance", "activateInstance" >>
DeleteOrder == << "deactivateInstance", "deleteInstance", "deleteTopology" >>

\* a session the registry could hold as live: its shadow connection is open and
\* it holds its client
Live(s) == clientOpen[s] /\ deviceClient[s]

\* C1: a start-processing command served before the first desired-property
\* delta callback of its session has completed issues no setTopology /
\* setInstance / activateInstance call.
C1_NoStartBeforeInitialSync ==
    (lastOp.kind = "start" /\ deltaDone[lastOp.session] = 0)
        => lastOp.calls = << >>

\* C2: a start-processing request on a session whose pipeline is already active
\* returns false, issues no pipeline call and leaves the inference timer and the
\* window bookkeeping unchanged.
C2_StartRefusedWhileActive ==
    [][ (lastOp'.kind = "start" /\ livePipelineActive[lastOp'.camera])
          => /\ lastOp'.result = FALSE
             /\ lastOp'.calls = << >>
             /\ UNCHANGED << timerVars, windowVars >> ]_vars

\* C3: while a camera id is mapped to a live session, a createDevice for that
\* id is rejected: it opens no second session for the id, a createDevice that
\* returns for the id returns failure, and the mapped session is not replaced.
C3_CreateRejectedWhenMapped ==
    [][ \A c \in Cameras :
          (avaInferenceDeviceMap[c] # NoSession /\ Live(avaInferenceDeviceMap[c]))
          => /\ ~ ( /\ sessionCount' = sessionCount + 1
                    /\ cameraId'[sessionCount'] = c
                    /\ connectPc'[sessionCount'] = "awaitSync" )
             /\ (lastOp'.kind = "create" /\ lastOp'.camera = c)
                   => lastOp'.result = FALSE
             /\ avaInferenceDeviceMap'[c] \in {avaInferenceDeviceMap[c], NoSession} ]_vars

C5_InitialSyncGate ==
    \A s \in Sessions :
        /\ deltaDone[s] = 0
              => /\ connectPc[s] # "connected"
                 /\ deviceReadyCalls[s] = 0
                 /\ connectTelemetryCalls[s] = 0
                 /\ \A c \in Cameras : avaInferenceDeviceMap[c] # s
        /\ deltaDone[s] >= 1 => deferredStart[s] = "resolved"
        /\ (connectPc[s] = "awaitSync" /\ deferredStart[s] = "resolved")
              => ENABLED createAvaInferenceDeviceResume(s)
        /\ (lastOp.kind = "create" /\ lastOp.session = s /\ lastOp.result)
              => /\ connectPc[s] = "connected"
                 /\ deviceReadyCalls[s] = 1
                 /\ connectTelemetryCalls[s] = 1
                 /\ avaInferenceDeviceMap[lastOp.camera] = s

\* C5 witness: the first delta callback completed and the connect returned
\* success
C5_Witness ==
    /\ lastOp.kind = "create"
    /\ lastOp.result
    /\ deltaDone[lastOp.session] = 1
    /\ pendingDeltas[lastOp.session] = 0

\* C6: the gate stays released once released, deviceReady and the
\* connected/inactive telemetry of connect run at most once per session and
\* exactly once for a connected one, and a delta callback that completes after
\* the first one runs neither again.
C6_GateReleasedOnce ==
    /\ [](\A s \in Sessions :
            /\ deviceReadyCalls[s] <= 1
            /\ connectTelemetryCalls[s] <= 1
            /\ connectPc[s] = "connected"
                  => (deviceReadyCalls[s] = 1 /\ connectTelemetryCalls[s] = 1))
    /\ [][ \A s \in Sessions :
             /\ deferredStart[s] = "resolved" => deferredStart'[s] = "resolved"
             /\ (deltaDone[s] >= 1 /\ deltaDone'[s] > deltaDone[s])
                   => /\ deviceReadyCalls'[s] = deviceReadyCalls[s]
                      /\ connectTelemetryCalls'[s] = connectTelemetryCalls[s]
                      /\ deferredStart'[s] = deferredStart[s] ]_vars

\* C6 witness: a connected session has completed a second delta callback
C6_Witness ==
    \E s \in Sessions :
        /\ connectPc[s] = "connected"
        /\ deltaDone[s] >= 2
        /\ deviceReadyCalls[s] = 1

\* C7: wherever a start command can be served, the pipeline start calls
\* setTopology, setInstance, activateInstance in that order, each only after the
\* previous one returned success, and returns true only when all three returned
\* success.
C7_StartSequence ==
    \A s \in Sessions : MethodsRegistered(s) =>
        \A o \in StartOutcomes :
            LET r == startAvaProcessingInternal(s, o)
            IN  /\ IsPrefix(r.calls, StartOrder)
                /\ Len(r.calls) >= 1
                /\ Len(r.calls) >= 2 => o[1] = "ok"
                /\ Len(r.calls) >= 3 => o[2] = "ok"
                /\ r.result => (Len(r.calls) = 3 /\ \A i \in 1..3 : o[i] = "ok")

\* C8: for every session that owns a pipeline, the pipeline delete calls
\* deactivateInstance, deleteInstance and deleteTopology, all three, whatever
\* their outcomes, and returns true exactly when none of them threw.
C8_DeleteRunsAllSteps ==
    \A s \in Sessions : connectPc[s] # "unborn" =>
        \A d \in DeleteOutcomes :
            LET r == deleteAvaPipeline(d)
            IN  /\ r.calls = DeleteOrder
                /\ r.result = (\A i \in 1..3 : d[i] # "throw")

\* C9: deleteCamera attempts the pipeline delete, the removal of the listeners
\* of the handles it holds and the close of the connection, and leaves the
\* session without shadow client and without twin handle.
C9_DeleteCameraReleasesHandles ==
    [][ (lastOp'.kind = "deprovision" /\ lastOp'.session # NoSession)
          => LET s == lastOp'.session
             IN  /\ Has(lastOp'.calls, "deactivateInstance")
                 /\ deviceTwin[s] => Has(lastOp'.calls, "twin.removeAllListeners")
                 /\ deviceClient[s] => Has(lastOp'.calls, "client.close")
                 /\ ~deviceClient'[s]
                 /\ ~deviceTwin'[s] ]_vars

\* C10: after the deprovision of a camera id has returned, the registry does not
\* hold the camera id, whatever sub-step failed.
C10_DeprovisionUnregisters ==
    lastOp.kind = "deprovision" => avaInferenceDeviceMap[lastOp.camera] = NoSession

\* C10 witness: the deprovision of a registered session returned after
\* deactivateInstance threw, close() threw and the identity deletion failed
C10_Witness ==
    /\ lastOp.kind = "deprovision"
    /\ lastOp.session # NoSession
    /\ Has(lastOp.calls, "deactivateInstance")
    /\ ~Has(lastOp.calls, "deleteInstance")
    /\ Has(lastOp.calls, "client.close")
    /\ deviceClient[lastOp.session]
    /\ lastOp.result = FALSE

C12_TeardownCancelsTimer ==
    [][ (lastOp'.kind \in {"stop", "deprovision"} /\ lastOp'.session # NoSession)
          => liveTimers'[lastOp'.session] = 0 ]_vars

\* C13: no two video links a session sent carry the same window start.
C13_NoWindowEmittedTwice ==
    \A s \in Sessions :
       \A i, j \in 1..Len(links[s]) :
          i # j => links[s][i].start # links[s][j].start

\* C14: every video link a session sent has a duration of at most
\* maxVideoInferenceTime plus one tick period.
C14_LinkDurationBounded ==
    \A s \in Sessions :
       \A i \in 1..Len(links[s]) :
          links[s][i].duration <= MaxVideoInferenceTime(s) + TickPeriod

\* the links the timeout branch sent for the idle period after the last inference
IdleLinks(s) ==
    { i \in 1..Len(links[s]) :
        /\ links[s][i].cause = "timeout"
        /\ links[s][i].at >= lastInferenceTime[s] + InferenceTimeout(s) }

\* the timer of s has fired in the idle period after the last inference
IdleTicked(s) ==
    /\ lastInferenceTime[s] # Epoch
    /\ liveTimers[s] > 0
    /\ \/ now > lastInferenceTime[s] + InferenceTimeout(s)
       \/ now = lastInferenceTime[s] + InferenceTimeout(s) /\ ticked[s] > 0

\* C15: with the settings 5 and 10, once the timer has fired 5 or more seconds
\* after the last inference of a burst, exactly one video link has been sent for
\* that idle period, however long the burst and the idle period are.
C15_OneLinkPerIdlePeriod ==
    \A s \in Sessions :
       ( /\ InferenceTimeout(s) = defaultInferenceTimeout
         /\ MaxVideoInferenceTime(s) = defaultMaxVideoInferenceTime
         /\ IdleTicked(s) )
       => Cardinality(IdleLinks(s)) = 1

\* C15 witness: the timer fired at least three times in an idle period
C15_Witness ==
    /\ IdleTicked(1)
    /\ now >= lastInferenceTime[1] + InferenceTimeout(1) + 2 * TickPeriod
    /\ Cardinality(IdleLinks(1)) = 1
    /\ tickPending[1] = 0

\* C16: with the settings 5 and 10, two links sent one after the other by the
\* maximum-duration branch are sent about 10 seconds apart and the second window
\* starts where the first ended.
C16_ContiguousWindows ==
    \A s \in Sessions :
       \A i \in 1..(Len(links[s]) - 1) :
          (links[s][i].cause = "max" /\ links[s][i+1].cause = "max")
          => /\ links[s][i+1].start = links[s][i].start + links[s][i].duration
             /\ links[s][i+1].at - links[s][i].at
                    >= defaultMaxVideoInferenceTime - TickPeriod

\* C17: reconciling the empty delta, the delta {key: undefined} or the delta
\* {key: {value: undefined}} leaves the recognized setting `key` at its default,
\* whatever the setting was before.
C17_EmptyDeltasYieldDefaults ==
    [][ \A k \in RecognizedKeys :
          ( /\ patchedProperties'.session # NoSession
            /\ patchedProperties'.delta \in
                   { << >>,
                     << [key |-> k, value |-> Undefined] >>,
                     << [key |-> k, value |-> Obj(TRUE, Undefined)] >> } )
          => settings'[patchedProperties'.session][k] = Default(k) ]_vars

\* C18: the patch a delta callback builds holds only recognized keys, never the
\* version marker, and each with the value the setting was set to.
C18_PatchOnlyRecognized ==
    /\ PatchKeys(patchedProperties.patch) \subseteq RecognizedKeys
    /\ VersionKey \notin PatchKeys(patchedProperties.patch)
    /\ \A e \in patchedProperties.patch :
          /\ \E i \in 1..Len(patchedProperties.delta) :
                patchedProperties.delta[i].key = e[1]
          /\ settings[patchedProperties.session][e[1]] = e[2]

\* C18 witness: a delta with an unrecognized key and a recognized key was
\* reconciled and its patch handed on
C18_Witness ==
    /\ patchedProperties.reported
    /\ patchedProperties.patch # {}
    /\ \E i \in 1..Len(patchedProperties.delta) :
          patchedProperties.delta[i].key \notin RecognizedKeys

\* C19: every recognized setting of every session holds its default or a value
\* that is not falsy, never undefined or null; a delta whose only entry holds a
\* falsy value (0, false, the empty string, raw or wrapped) for a recognized key
\* sets that key to its default.
C19_SettingsAlwaysConcrete ==
    /\ [](\A s \in Sessions, k \in RecognizedKeys :
            /\ settings[s][k] \notin {Undefined, Null}
            /\ settings[s][k] = Default(k) \/ ~Falsy(settings[s][k]))
    /\ [][ \A k \in RecognizedKeys :
             ( /\ patchedProperties'.session # NoSession
               /\ Len(patchedProperties'.delta) = 1
               /\ patchedProperties'.delta[1].key = k
               /\ ~HasOwnThrows(patchedProperties'.delta[1].value)
               /\ Falsy(Unwrap(patchedProperties'.delta[1].value)) )
             => settings'[patchedProperties'.session][k] = Default(k) ]_vars

\* C19 witness: a falsy value has put wpInferenceTimeout back to its default
\* while another setting holds a value of its own
C19_Witness ==
    /\ patchedProperties.session # NoSession
    /\ patchedProperties.delta =
           << [key |-> "wpInferenceTimeout", value |-> Obj(TRUE, Num(0))] >>
    /\ settings[patchedProperties.session]["wpInferenceTimeout"] =
           Num(defaultInferenceTimeout)
    /\ settings[patchedProperties.session]["wpMaxVideoInferenceTime"] = Num(7)

\* C20: when a delta of two entries holds null for a recognized key, that key is
\* at its default afterwards and the other recognized key of the delta is
\* applied and reported.
C20_MalformedKeyDoesNotAbort ==
    [][ ( /\ patchedProperties'.session # NoSession
          /\ Len(patchedProperties'.delta) = 2
          /\ \E i \in 1..2 : /\ patchedProperties'.delta[i].key \in RecognizedKeys
                             /\ patchedProperties'.delta[i].value = Null )
        => \A i \in 1..2 :
              LET e == patchedProperties'.delta[i]
                  s == patchedProperties'.session
              IN  e.key \in RecognizedKeys =>
                     IF e.value = Null
                     THEN settings'[s][e.key] = Default(e.key)
                     ELSE /\ settings'[s][e.key] = Applied(e.key, e.value)
                          /\ << e.key, Applied(e.key, e.value) >>
                                 \in patchedProperties'.patch
                          /\ patchedProperties'.reported ]_vars

\* the sessions the registry holds
RegisteredSessions == { avaInferenceDeviceMap[c] : c \in Cameras } \ {NoSession}

C22_HandlerExceptionSetsCritical ==
    [][ ( /\ patchedProperties'.session # NoSession
          /\ Reconcile(settings[patchedProperties'.session],
                       patchedProperties'.delta).threw )
        => /\ healthState'[patchedProperties'.session] = "critical"
           /\ connectPc'[patchedProperties'.session] =
                  connectPc[patchedProperties'.session] ]_vars

\* C23: a health check that runs while a registered session is at critical
\* returns a level below good and increments the failure streak.
C23_SessionHealthAggregated ==
    [][ ( /\ lastOp'.kind = "health"
          /\ \E s \in RegisteredSessions : healthState[s] = "critical" )
        => /\ HealthLevel(lastOp'.health) < HealthLevel("good")
           /\ healthCheckFailStreak' = healthCheckFailStreak + 1 ]_vars

\* C24: a health check that ends healthy leaves the failure streak at zero.
C24_StreakResetOnSuccess ==
    [][ (lastOp'.kind = "health" /\ lastOp'.result)
          => healthCheckFailStreak' = 0 ]_vars

\* C25: a health check that ends below good increments the failure streak by
\* one, any other check leaves it; the process exits in exactly the checks that
\* end below good with the streak at or above healthCheckRetries.
C25_RestartAtThreshold ==
    [][ lastOp'.kind = "health"
          => /\ healthCheckFailStreak' =
                    IF lastOp'.result THEN healthCheckFailStreak
                    ELSE healthCheckFailStreak + 1
             /\ lastOp'.result = (HealthLevel(lastOp'.health) >= HealthLevel("good"))
             /\ exited' = ( /\ ~lastOp'.result
                            /\ healthCheckFailStreak' >= healthCheckRetries ) ]_vars

\* C25 witness: the third failing check in a row with the default threshold
C25_Witness ==
    /\ lastOp.kind = "health"
    /\ exited
    /\ healthCheckRetries = defaultHealthCheckRetries
    /\ healthCheckFailStreak = defaultHealthCheckRetries

C28_ConnectIdempotent ==
    [][ ( /\ lastOp'.kind \in {"connect", "connecting"}
          /\ lastOp'.session # NoSession
          /\ connectPc[lastOp'.session] \in {"failed", "connected"}
          /\ deviceClient[lastOp'.session] )
        => /\ Has(lastOp'.calls, "close")
           /\ lastOp'.closed => Has(lastOp'.calls, "fromConnectionString")
           /\ lastOp'.clientConnectionStatus
                 => /\ clientOpen'[lastOp'.session]
                    /\ deviceTwin'[lastOp'.session]
                    /\ twinListening'[lastOp'.session] ]_vars

\* C29: two starts that follow one another compute different asset names.
C29_AssetNameUnique ==
    [][ ( /\ lastOp.kind = "start" /\ lastOp.assetName # NoAssetName
          /\ lastOp'.kind = "start" /\ lastOp'.assetName # NoAssetName )
        => lastOp'.assetName # lastOp.assetName ]_vars

\* the message of a routing step reached the lookup of the camera id
Reached(op) ==
    /\ op.kind = "route"
    /\ op.message.body = "json"
    /\ ~(op.message.inputName = "avaDiagnostics" /\ ~moduleSettings.wpDebugTelemetry)

C32_StopFalseOnFailure ==
    [][ lastOp'.kind = "stop"
        => /\ lastOp'.calls = << "deactivateInstance" >>
           /\ lastOp'.result => ~livePipelineActive'[lastOp'.camera] ]_vars

\* C33: a start command whose stream address did not resolve returns false and
\* makes none of the pipeline calls.
C33_NoStartWithoutStreamAddress ==
    [][ ( /\ lastOp'.kind = "start" /\ lastOp'.paramsOk
          /\ lastOp'.prepared.rtspUrl = "" )
        => /\ ~lastOp'.result
           /\ lastOp'.calls = << >> ]_vars

\* C38: a start command whose instance document could not be retrieved returns
\* false, is answered 500 and makes none of the pipeline calls.
C38_NoStartWithoutDocument ==
    [][ ( /\ lastOp'.kind = "start" /\ lastOp'.paramsOk
          /\ ~lastOp'.prepared.document )
        => /\ ~lastOp'.result
           /\ lastOp'.status = 500
           /\ lastOp'.calls = << >> ]_vars

\* C34: in every state a session has at most one live timer, and a session with
\* a live timer has an active pipeline.
C34_OneTimerWhileActive ==
    \A s \in Sessions :
        /\ liveTimers[s] <= 1
        /\ liveTimers[s] > 0
              => /\ cameraId[s] \in Cameras
                 /\ livePipelineActive[cameraId[s]]

(* --------------- restartModule (part_002 455-480, 927-950) ------------ *)

\* values of the Timeout parameter of the restart-module command, in seconds
RestartTimeouts == {0, 1, 2}

\* process.exit(1) is reached only in restartModule
ProcessExit ==
    /\ exited' = TRUE
    /\ restart' = [restart EXCEPT !.pc = "done"]

\* restartModuleDirectMethod: the response is sent first, respO its outcome; a
\* send that throws is answered from the catch block and nothing restarts
restartModuleDirectMethod(timeout, respO) ==
    /\ ~exited
    /\ restart.pc = "idle"
    /\ events < MaxEvents
    /\ events' = events + 1
    /\ restart' = IF respO = "throw" THEN restart
                  ELSE [pc |-> "emit", reason |-> "RestartModule command received",
                        timeout |-> timeout, waited |-> 0, emitted |-> FALSE,
                        responded |-> TRUE]
    /\ lastOp' = CmdResult("restartModule", NoSession, NoCamera,
                           IF respO = "throw" THEN 500 ELSE 200,
                           respO # "throw", << >>)
    /\ UNCHANGED << avaInferenceDeviceMap, sessionCount, sessionVars, deltaVars,
                    readyVars, livePipelineActive, timerVars, windowVars, now,
                    iotcDevices, gatewayHealthState, healthCheckFailStreak,
                    healthCheckRetries, exited, moduleSettings >>
    /\ NoReconcile
    /\ NoTick

\* restartModule up to the end of its sendMeasurement, sendO the outcome of the
\* send: the delay is inside the try block of the send
restartModuleEmit(sendO) ==
    /\ ~exited
    /\ restart.pc = "emit"
    /\ restart' = [restart EXCEPT
                     !.emitted = TRUE,
                     !.pc = IF sendO # "throw" /\ restart.timeout > 0
                            THEN "delay" ELSE "exit"]
    /\ lastOp' = NoOp
    /\ UNCHANGED << avaInferenceDeviceMap, sessionCount, sessionVars, deltaVars,
                    readyVars, livePipelineActive, timerVars, windowVars, now,
                    events, iotcDevices, gatewayHealthState, healthCheckFailStreak,
                    healthCheckRetries, exited, moduleSettings >>
    /\ NoReconcile
    /\ NoTick

\* one second of the setTimeout(1000 * timeout) of restartModule
restartModuleDelay ==
    /\ ~exited
    /\ restart.pc = "delay"
    /\ restart' = [restart EXCEPT
                     !.waited = @ + 1,
                     !.pc = IF restart.waited + 1 >= restart.timeout
                            THEN "exit" ELSE "delay"]
    /\ lastOp' = NoOp
    /\ UNCHANGED << avaInferenceDeviceMap, sessionCount, sessionVars, deltaVars,
                    readyVars, livePipelineActive, timerVars, windowVars, now,
                    events, iotcDevices, gatewayHealthState, healthCheckFailStreak,
                    healthCheckRetries, exited, moduleSettings >>
    /\ NoReconcile
    /\ NoTick

\* the end of restartModule, after the try block and its catch
restartModuleExit ==
    /\ ~exited
    /\ restart.pc = "exit"
    /\ ProcessExit
    /\ lastOp' = NoOp
    /\ UNCHANGED << avaInferenceDeviceMap, sessionCount, sessionVars, deltaVars,
                    readyVars, livePipelineActive, timerVars, windowVars, now,
                    events, iotcDevices, gatewayHealthState, healthCheckFailStreak,
                    healthCheckRetries, moduleSettings >>
    /\ NoReconcile
    /\ NoTick

RestartSpecNext ==
    \/ \E timeout \in RestartTimeouts, respO \in {"ok", "throw"} :
          restartModuleDirectMethod(timeout, respO)
    \/ \E sendO \in Outcomes : restartModuleEmit(sendO)
    \/ restartModuleDelay
    \/ restartModuleExit
    \/ \E freeMemory \in FreeMemorySamples, sendO \in Outcomes :
          gatewayGetHealth(freeMemory, sendO)
    \/ onModuleClientError
    \/ \E envRetries \in EnvRetries, moduleClient \in BOOLEAN :
          onModuleReady(envRetries, moduleClient)

RestartSpec == HealthSpecInit /\ [][RestartSpecNext]_vars

\* C35: the process exits only after the restart-reason event was handed to
\* sendMeasurement and after the whole delay of the request has passed, a restart
\* that began goes on to the exit whatever the send did, and a restart of the
\* restart-module command begins after its response was sent.
C35_RestartEmitsWaitsExits ==
    [][ /\ (exited' /\ ~exited)
           => /\ restart'.emitted
              /\ restart'.waited = restart'.timeout
              /\ (restart'.reason = "RestartModule command received"
                     => restart'.responded)
        /\ (restart.pc # "idle" => restart'.pc # "idle")
        /\ (restart.pc = "exit" /\ restart' # restart => exited') ]_vars

(* ------- commands on the command-channel input (part_002 282-317) ----- *)

DeviceOperations == {"DELETE_CAMERA", "SEND_EVENT", "SEND_INFERENCES"}

\* the data of a command: its cameraId (NoCamera: absent) and whether it holds
\* an operationInfo
CommandData == [cameraId : Cameras \cup {NoCamera}, operationInfo : BOOLEAN]

\* the message of avaInferenceDeviceOperation's result; its status is true
\* exactly when the message is Success
OperationMessage(data) ==
    IF data.cameraId = NoCamera THEN "Missing cameraId"
    ELSE IF avaInferenceDeviceMap[data.cameraId] = NoSession
         THEN "No device exists with cameraId"
    ELSE IF ~data.operationInfo THEN "Missing operationInfo data"
    ELSE "Success"

\* what avaInferenceDeviceOperation returns
OperationResult(deviceOperation, data) ==
    [NoOp EXCEPT !.kind = "operation",
                 !.camera = data.cameraId,
                 !.session = IF data.cameraId = NoCamera THEN NoSession
                             ELSE avaInferenceDeviceMap[data.cameraId],
                 !.result = OperationMessage(data) = "Success",
                 !.paramsOk = data.operationInfo,
                 !.message = [NoMessage EXCEPT !.inputName = "cameraCommand",
                                               !.body = deviceOperation]]

\* avaInferenceDeviceOperation(deviceOperation, data) as the command-channel
\* input calls it; d, closeO, apiO: the outcomes of a deprovision
avaInferenceDeviceOperation(deviceOperation, data, d, closeO, apiO) ==
    LET r == OperationResult(deviceOperation, data)
    IN  IF r.result /\ deviceOperation = "DELETE_CAMERA"
        THEN deprovisionAvaInferenceDevice(data.cameraId, d, closeO, apiO)
        ELSE /\ ~exited
             /\ events < MaxEvents
             /\ events' = events + 1
             /\ lastOp' = r
             /\ lastInferenceTime' =
                    IF /\ r.result
                       /\ deviceOperation = "SEND_INFERENCES"
                       /\ deviceClient[r.session]
                    THEN [lastInferenceTime EXCEPT ![r.session] = now]
                    ELSE lastInferenceTime
             /\ UNCHANGED << avaInferenceDeviceMap, sessionCount, sessionVars,
                             deltaVars, readyVars, livePipelineActive, timerVars,
                             videoInferenceStartTime,
                             createVideoLinkForInferenceTimeout, now, iotcDevices,
                             healthVars, moduleSettings >>
             /\ NoReconcile
             /\ NoTick

CommandSpecNext ==
    \/ \E deviceOperation \in DeviceOperations, data \in CommandData,
          apiO \in {"ok", "fail"} :
          avaInferenceDeviceOperation(deviceOperation, data,
                                      [i \in 1..3 |-> "ok"], "ok", apiO)
    \/ \E cam \in Cameras : createAvaInferenceDevice(cam, "ok")
    \/ \E s \in Sessions : createAvaInferenceDeviceResume(s)
    \/ \E s \in Sessions : onHandleDeviceProperties(s, << >>)
    \/ \E s \in Sessions : onDeviceClientError(s)

CommandSpec == RouteInit /\ [][CommandSpecNext]_vars

\* C36: a delete-camera command for a deviceId that is in the registry leaves
\* the registry without that deviceId, with and without the other fields of the
\* command data.
C36_DeleteCommandDeprovisions ==
    [][ \A cam \in Cameras :
          ( /\ avaInferenceDeviceMap[cam] # NoSession
            /\ lastOp'.camera = cam
            /\ \/ lastOp'.kind = "deprovision"
               \/ /\ lastOp'.kind = "operation"
                  /\ lastOp'.message.body = "DELETE_CAMERA" )
          => avaInferenceDeviceMap'[cam] = NoSession ]_vars

(* ------------- a session that loses its shadow connection ------------- *)

\* sendMeasurement(data) of a session: what reaches the client, which is nothing
\* without a client handle (device.ts 507-510)
Transmitted(client, data) == IF client THEN data ELSE << >>

\* session 1 was started at Boot + MaxTime - MaxTeardownTime - 9 and has
\* received inferences since, the last one two seconds ago: its window is nine
\* seconds old and the tick of this second has run
LossInit ==
    /\ avaInferenceDeviceMap = [c \in Cameras |-> IF c = 1 THEN 1 ELSE NoSession]
    /\ sessionCount = 1
    /\ cameraId = [s \in Sessions |-> IF s = 1 THEN 1 ELSE NoCamera]
    /\ connectPc = [s \in Sessions |-> IF s = 1 THEN "connected" ELSE "unborn"]
    /\ deviceClient = [s \in Sessions |-> s = 1]
    /\ deviceTwin = [s \in Sessions |-> s = 1]
    /\ clientOpen = [s \in Sessions |-> s = 1]
    /\ twinListening = [s \in Sessions |-> s = 1]
    /\ deferredStart = [s \in Sessions |-> IF s = 1 THEN "resolved" ELSE "pending"]
    /\ healthState = [s \in Sessions |-> "good"]
    /\ pendingDeltas = [s \in Sessions |-> 0]
    /\ deltaDone = [s \in Sessions |-> IF s = 1 THEN 1 ELSE 0]
    /\ deviceReadyCalls = [s \in Sessions |-> IF s = 1 THEN 1 ELSE 0]
    /\ connectTelemetryCalls = [s \in Sessions |-> IF s = 1 THEN 1 ELSE 0]
    /\ livePipelineActive = [c \in Cameras |-> c = 1]
    /\ inferenceInterval = [s \in Sessions |-> s = 1]
    /\ liveTimers = [s \in Sessions |-> IF s = 1 THEN 1 ELSE 0]
    /\ ticked = [s \in Sessions |-> IF s = 1 THEN 1 ELSE 0]
    /\ now = Boot + MaxTime - MaxTeardownTime
    /\ lastInferenceTime = [s \in Sessions |-> IF s = 1 THEN now - 2 ELSE Epoch]
    /\ videoInferenceStartTime = [s \in Sessions |-> IF s = 1 THEN now - 9 ELSE 0]
    /\ createVideoLinkForInferenceTimeout = [s \in Sessions |-> s = 1]
    /\ lastOp = NoOp
    /\ iotcDevices = {1}
    /\ settings = [s \in Sessions |-> InitialSettings]
    /\ patchedProperties = NoPatch
    /\ tickPending = [s \in Sessions |-> 0]
    /\ links = [s \in Sessions |-> << >>]
    /\ events = MaxEvents - 2
    /\ HealthInit

LossNext ==
    \/ \E s \in Sessions : inferenceTimer(s)
    \/ \E s \in Sessions : inferenceTimerResume(s)
    \/ \E s \in Sessions : processAvaInferences(s)
    \/ Advance
    \/ \E s \in Sessions : onDeviceClientError(s)
    \/ \E cam \in Cameras, closeO \in {"ok", "throw"} :
          deprovisionAvaInferenceDevice(cam, [i \in 1..3 |-> "ok"], closeO, "ok")
    \/ \E s \in Sessions, delta \in GatewayDeltas : onHandleDeviceProperties(s, delta)
    \/ \E s \in Sessions : onHandleDevicePropertiesDone(s)
    \/ \E s \in Sessions, o \in Outcomes : stopAvaProcessingDirectMethod(s, o)
    \/ \E s \in Sessions, snapO \in Outcomes, uploadO \in Outcomes :
          captureImageDirectMethod(s, TRUE, snapO, uploadO)
    \/ \E body \in {"malformed", "json"} :
          onHandleDownstreamMessages("avaTelemetry",
                                     Path(3, "livePipelines", << 1 >>), body)
    \/ \E freeMemory \in FreeMemorySamples : gatewayGetHealth(freeMemory, "ok")

LossSpec == LossInit /\ [][LossNext]_vars

\* the shadow connection of session s is gone: its error callback has fired or
\* it was closed after it had been opened
Gone(s) ==
    \/ healthState[s] = "critical"
    \/ connectPc[s] # "unborn" /\ ~clientOpen[s]

\* C37: a session whose shadow connection is gone sends nothing: no step adds a
\* video link or a waiting link send, no delta callback begins a
\* reported-property update, the telemetry a command of the session hands to
\* sendMeasurement is not transmitted, and lastInferenceTime moves only by a
\* start command.
C37_NothingSentOnceGone ==
    [][ \A s \in Sessions :
          Gone(s) =>
             /\ links'[s] = links[s]
             /\ tickPending'[s] <= tickPending[s]
             /\ pendingDeltas'[s] <= pendingDeltas[s]
             /\ (patchedProperties'.session = s /\ patchedProperties'.reported)
                    => ~deviceTwin'[s]
             /\ lastOp'.session = s
                    => Transmitted(deviceClient'[s], lastOp'.telemetry) = << >>
             /\ lastInferenceTime'[s] # lastInferenceTime[s]
                    => lastOp'.kind = "start" ]_vars

\* C37 witness: after the error callback the window of the started session
\* reached its maximum duration and the tick moved the window without a link
C37_Witness ==
    /\ healthState[1] = "critical"
    /\ ~deviceClient[1]
    /\ liveTimers[1] = 1
    /\ ticked[1] = 1
    /\ now = Boot + MaxTime - MaxTeardownTime + 1
    /\ createVideoLinkForInferenceTimeout[1]
    /\ videoInferenceStartTime[1] = now
    /\ links[1] = << >>

\* the link the step adds to the history of session s
NewLink(s) == links'[s][Len(links'[s])]

\* a callback of the timer of session s runs in the step
Ticks(s) == ticked'[s] = ticked[s] + 1

\* until the first inference after a start a tick sends nothing and moves the
\* window to now
QuietUntilFirstInference(s) ==
    (Ticks(s) /\ lastInferenceTime[s] = Epoch)
       => /\ links'[s] = links[s]
          /\ tickPending'[s] = tickPending[s]
          /\ videoInferenceStartTime'[s] = now

\* C39 as stated: until the first inference the ticks emit nothing and move the
\* window to now, and the window of every emitted link contains a received
\* inference.
C39_EveryWindowHoldsInference ==
    [][ \A s \in Sessions :
          /\ QuietUntilFirstInference(s)
          /\ Len(links'[s]) > Len(links[s])
                => /\ NewLink(s).start <= lastInferenceTime[s]
                   /\ lastInferenceTime[s] <= now ]_vars

\* C39: until the first inference the ticks emit nothing and move the window to
\* now, and every link is emitted after an inference was received: its window
\* contains the last received inference or begins less than the inference
\* timeout plus one tick period after it.
C39_EveryWindowFollowsInference ==
    [][ \A s \in Sessions :
          /\ QuietUntilFirstInference(s)
          /\ Len(links'[s]) > Len(links[s])
                => /\ lastInferenceTime[s] # Epoch
                   /\ lastInferenceTime[s] <= now
                   /\ NewLink(s).start - lastInferenceTime[s]
                          < InferenceTimeout(s) + TickPeriod ]_vars

\* C39 witness: a link of the timeout branch whose window began after the last
\* inference, which came one second before a maximum-duration link
C39_Witness ==
    /\ Len(links[1]) = 2
    /\ links[1][1].cause = "max"
    /\ links[1][2].cause = "timeout"
    /\ links[1][2].at = now
    /\ links[1][2].start = links[1][1].at
    /\ lastInferenceTime[1] = links[1][1].at - 1

\* a critical condition: the gateway or a registered session is at critical
CriticalCondition ==
    \/ gatewayHealthState = "critical"
    \/ \E s \in RegisteredSessions : healthState[s] = "critical"

\* C40: a session at critical stays at critical, a gateway at critical stays
\* there unless onModuleReady runs, and every health check that runs under a
\* critical condition fails, adds one to the failure streak and ends the process
\* when the streak has reached healthCheckRetries, so that the restart comes
\* within healthCheckRetries checks.
C40_HealthNeverRecovers ==
    [][ /\ \A s \in Sessions :
              healthState[s] = "critical" => healthState'[s] = "critical"
        /\ (lastOp'.kind = "health" /\ gatewayHealthState = "critical")
              => gatewayHealthState' = "critical"
        /\ (lastOp'.kind = "health" /\ CriticalCondition)
              => /\ ~lastOp'.result
                 /\ healthCheckFailStreak' = healthCheckFailStreak + 1
                 /\ healthCheckFailStreak' >= healthCheckRetries => exited' ]_vars

\* the operations of a session that change its lifecycle state
LifecycleKinds == {"start", "stop", "restart", "deprovision"}

\* C31: while a delta callback of a session waits for its reported-property
\* update, no other delta callback of that session begins and no start, stop,
\* restart-camera or delete of that session makes its remote calls.
C31_OperationsSerialized ==
    [][ \A s \in Sessions :
          pendingDeltas[s] > 0
             => /\ pendingDeltas'[s] <= pendingDeltas[s]
                /\ ~ ( /\ lastOp'.session = s
                       /\ lastOp'.kind \in LifecycleKinds
                       /\ lastOp'.calls # << >> ) ]_vars

====
